---- MODULE Spec2Model ----
(***************************************************************************)
(* Verification model of the Gumiho message-intake pipeline:               *)
(*   - the LLM gateway and its Redis-backed circuit breaker                *)
(*     (src/core/llm_gateway.py, src/services/redis_client.py)             *)
(*   - context rendering and semantic dedup (src/core/context_manager.py)  *)
(*   - persona resolution (src/database/persona_store.py)                  *)
(* Each subsystem has its own specification over the shared variables.     *)
(***************************************************************************)
EXTENDS Integers, Sequences, FiniteSets, TLC

VARIABLES
    \* ---- key-value store, circuit breaker keys ----
    cbState,      \* cb:{provider}            [val, ttl]
    cbFailures,   \* cb:{provider}:failures   [n, ttl]
    faults,       \* whether store operations may fail in this behaviour
    \* ---- gateway calls in progress ----
    pc,           \* position of each gateway call
    op,           \* operation of each call: chat, text, vision
    prov,         \* provider the call is at
    attempt,      \* request number within OpenRouterClient.generate_vision
    result,       \* value the call returned
    log,          \* per-call history: what the call read, issued and recorded
    \* ---- history of the breaker of one provider (breaker specification) ----
    watched,      \* the provider whose history is kept
    run,          \* _record_failure calls since the last _record_success
    openedAge,    \* seconds since the fail_max-th failure of that run; -1 before
                  \* it and after a _record_success
    succBelow,    \* the last _record_success came after 1..fail_max-1 failures
    lrun,         \* _record_failure calls since the last one that found the
                  \* counter empty and the circuit closed (0 after a success)
    lrunAge,      \* seconds since the first failure of that run
    lopenedAge,   \* seconds since the fail_max-th failure of that run; -1 before
                  \* it and after a _record_success
    inLife,       \* its fail_max failures came within the counter's lifetime
    sinceFail,    \* seconds since its last _record_failure; -1 before the first
    \* ---- ContextManager.format ----
    fmtIn,        \* token counts of the rendered blocks, token_budget, recount drift
    fmtOut,       \* the parts format joined, in order
    fmtPhase,     \* "input" before format ran, "done" after
    \* ---- ContextManager.build ----
    bldIn,        \* conversation_log rows, channel history, reply chain, retrieval outcome
    bldCtx,       \* the AssembledContext build returned
    bldPhase,     \* "input" before build ran, "done" after
    \* ---- persona store ----
    perUser,      \* the user_personas row of the user
    perServer,    \* the server_personas row of the server
    cacheUp,      \* cache key up:{user_id}
    cacheSp,      \* cache key sp:{server_id}
    perEff,       \* what the last get_effective_persona returned
    \* ---- persona store: a read and a write that run together ----
    prPc,         \* position of the get_effective_persona call
    prUserP,      \* user_p
    prServerP,    \* server_p
    prAfter,      \* the call started after a write completed, with no write since
    pwPc,         \* position of the write: "idle", or the cache key it is about to clear
    pwDone,       \* a write has completed
    \* ---- LocalRouter ----
    rtReady,      \* self._ready
    rtLayer,      \* self._route_layer is not None
    rtEncoder,    \* self._encoder is not None
    rtIn,         \* arguments of the last classify call
    rtOut,        \* the RouteResult it returned
    \* ---- user store ----
    usRow,        \* the user_profiles row of the user
    usRet,        \* what the last get_user / upsert_user returned
    usTrip,       \* the upsert_user call a following get_user is compared with
    \* ---- ChatCog.on_message, one message at a time ----
    plMsg,        \* the message being handled
    plPc,         \* position of the handler
    plRoute,      \* route_result
    plRate,       \* rate_check
    plMust,       \* the user had max_requests allowed calls in the window when the counter was read
    plCount,      \* count = int(current), as check_rate_limit read it
    plGen,        \* should_respond, reply_text
    plLog,        \* what the handler and its post-process task did, in order
    plExit,       \* "running", "returned", or "raised" when an exception left on_message
    plRaisedAt,   \* the step whose exception was raised, or "none"
    plTriggered,  \* the handler went past the trigger check
    ppPc,         \* position of the _post_process task, "none" when not spawned
    rlKey,        \* redis key rl:{user_id}
    rlWin,        \* check_rate_limit calls that returned allowed from the store's
                  \* answers since the key was created
    \* ---- concurrent check_rate_limit calls of one user ----
    rcPc,         \* position of each call
    rcCount,      \* count = int(current), as the call read it
    rcRes,        \* what the call returned
    \* ---- ContextManager._trace_reply_chain ----
    tcIn,         \* the reply-to links above the message, closest first
    tcChain,      \* chain
    tcDepth,      \* depth
    tcPc,         \* "loop", "return", "done", or "raised"
    tcRet,        \* the list the call returned
    \* ---- ContextManager._get_channel_history ----
    chChannel,    \* the messages of the channel, oldest first
    chCache,      \* cache key ctx:{channel_id}
    chCall,       \* the last call: its argument, what it found and returned
    \* ---- LurkerCog.on_message, handlers of one channel ----
    lkPc,         \* position of each handler
    lkKey,        \* cooldown key lurker:{channel_id}
    lkSentAges    \* seconds since each lurker message sent less than cooldown_seconds ago

storeVars == <<cbState, cbFailures, faults>>
callVars == <<pc, op, prov, attempt, result, log>>
histVars == <<watched, run, openedAge, succBelow, lrun, lrunAge, lopenedAge, inLife,
              sinceFail>>

fmtVars == <<fmtIn, fmtOut, fmtPhase>>

bldVars == <<bldIn, bldCtx, bldPhase>>
prVars == <<prPc, prUserP, prServerP, prAfter, pwPc, pwDone>>
perVars == <<perUser, perServer, cacheUp, cacheSp, perEff, prVars>>

rtVars == <<rtReady, rtLayer, rtEncoder, rtIn, rtOut>>

usVars == <<usRow, usRet, usTrip>>
rcVars == <<rcPc, rcCount, rcRes>>
plCall == <<plMsg, plPc, plRoute, plRate, plMust, plCount, plGen, plLog, plExit, plRaisedAt,
            plTriggered, ppPc>>
plVars == <<plCall, rlKey, rlWin, rcVars>>
tcVars == <<tcIn, tcChain, tcDepth, tcPc, tcRet>>
chVars == <<chChannel, chCache, chCall>>
lkVars == <<lkPc, lkKey, lkSentAges>>
moreVars == <<tcVars, chVars, lkVars>>
rtState == <<rtReady, rtLayer, rtEncoder>>
rtCall == <<rtIn, rtOut>>

vars == <<storeVars, callVars, histVars, fmtVars, bldVars, perVars, rtVars, usVars, plVars,
    moreVars>>

nonGateway == <<fmtVars, bldVars, perVars, rtVars, usVars, plVars,
    moreVars>>
nonFormat == <<storeVars, callVars, histVars, bldVars, perVars, rtVars, usVars, plVars,
    moreVars>>
nonBuild == <<storeVars, callVars, histVars, fmtVars, perVars, rtVars, usVars, plVars,
    moreVars>>
nonPersona == <<storeVars, callVars, histVars, fmtVars, bldVars, rtVars, usVars, plVars,
                prVars,
    moreVars>>
nonPersonaRace == <<storeVars, callVars, histVars, fmtVars, bldVars, rtVars, usVars, plVars,
    moreVars>>
nonRouter == <<storeVars, callVars, histVars, fmtVars, bldVars, perVars, usVars, plVars,
    moreVars>>
nonUsers == <<storeVars, callVars, histVars, fmtVars, bldVars, perVars, rtVars, plVars,
    moreVars>>
nonPipeline == <<storeVars, callVars, histVars, fmtVars, bldVars, perVars, rtCall, usVars,
                 rcVars,
    moreVars>>
nonRate == <<storeVars, callVars, histVars, fmtVars, bldVars, perVars, rtVars, usVars, plCall,
    moreVars>>
allOld == <<storeVars, callVars, histVars, fmtVars, bldVars, perVars, rtVars, usVars, plVars>>
nonChain == <<allOld, chVars, lkVars>>
nonHistory == <<allOld, tcVars, lkVars>>
nonLurker == <<allOld, tcVars, chVars>>

(***************************************************************************)
(* Configuration and constants                                             *)
(***************************************************************************)
Providers == {"groq", "openrouter"}
Calls == {"c1", "c2"}

\* settings.circuit_breaker.fail_max (configurable; small here)
FailMax == 2
\* settings.circuit_breaker.reset_timeout_seconds
ResetTimeout == 30
\* expiry of the failure counter, set on its first increment
FailureCounterTtl == 120
\* default ttl_seconds of set_circuit_state, used by the closing write
DefaultStateTtl == 60
\* seconds that pass in one Tick of the gateway specifications
TickSeconds == 30
\* seconds that pass in one BrTick of the breaker specification
BreakerTickSeconds == 15
\* cap on the failure counter, which the code never bounds
MaxCount == FailMax + 1

NoExpiry == -1
NoKey == [val |-> "nil", ttl |-> 0]
NoCounter == [n |-> 0, ttl |-> 0]

(***************************************************************************)
(* Redis commands on one key                                               *)
(***************************************************************************)
RedisGet(k) == k.val

RedisSetex(ttl, v) == [val |-> v, ttl |-> ttl]

RedisIncr(k) == IF k.n = 0 THEN [n |-> 1, ttl |-> NoExpiry]
                ELSE [k EXCEPT !.n = @ + 1]

RedisExpire(k, ttl) == IF k.n = 0 THEN k ELSE [k EXCEPT !.ttl = ttl]

\* a key with an expiry after `d` seconds
Elapse(k, none, d) ==
    IF k.ttl = NoExpiry \/ k = none THEN k
    ELSE IF k.ttl - d <= 0 THEN none ELSE [k EXCEPT !.ttl = @ - d]

(***************************************************************************)
(* services/redis_client.py: circuit breaker helpers.  `ok` is the outcome *)
(* of the store command; every helper catches the error and returns its    *)
(* neutral value.                                                          *)
(***************************************************************************)
get_circuit_state(k, ok) ==
    IF ok THEN (IF RedisGet(k) = "nil" THEN "closed" ELSE RedisGet(k))
    ELSE "closed"

set_circuit_state_IfAbsent(k, state, ttl_seconds, ok) ==
    IF ok /\ k = NoKey THEN RedisSetex(ttl_seconds, state) ELSE k

set_circuit_state_NoExpiry(k, state, ttl_seconds, ok) ==
    IF ok THEN RedisSetex(NoExpiry, state) ELSE k

\* redis.setex(key, ttl_seconds, state): value and expiry are both replaced
set_circuit_state(k, state, ttl_seconds, ok) ==
    IF ok THEN RedisSetex(ttl_seconds, state) ELSE k

increment_circuit_failures(k, okIncr, okExpire) ==
    IF ~okIncr THEN [key |-> k, count |-> 0]
    ELSE LET k1 == RedisIncr(k)
         IN  IF k1.n = 1
             THEN IF okExpire
                  THEN [key |-> RedisExpire(k1, FailureCounterTtl), count |-> 1]
                  ELSE [key |-> k1, count |-> 0]
             ELSE [key |-> k1, count |-> k1.n]

reset_circuit_failures_Keep(k, ok) == k

reset_circuit_failures(k, ok) == IF ok THEN NoCounter ELSE k

(***************************************************************************)
(* core/llm_gateway.py: circuit breaker                                    *)
(***************************************************************************)
is_circuit_open_Never(state) == FALSE

is_circuit_open(state) == state = "open"

\* f[i] is the outcome of the i-th store command of the call
record_success(st, fl, f) ==
    LET fl1 == reset_circuit_failures(fl, f[1])
        current_state == get_circuit_state(st, f[2])
    IN  [st |-> IF current_state # "closed"
                THEN set_circuit_state(st, "closed", DefaultStateTtl, f[3])
                ELSE st,
         fl |-> fl1]

record_failure_Above(st, fl, f) ==
    LET r == increment_circuit_failures(fl, f[1], f[2])
    IN  [st |-> IF r.count > FailMax
                THEN set_circuit_state(st, "open", ResetTimeout, f[3])
                ELSE st,
         fl |-> r.key]

record_failure_Exact(st, fl, f) ==
    LET r == increment_circuit_failures(fl, f[1], f[2])
    IN  [st |-> IF r.count = FailMax
                THEN set_circuit_state(st, "open", ResetTimeout, f[3])
                ELSE st,
         fl |-> r.key]

\* _record_failure
record_failure(st, fl, f) ==
    LET r == increment_circuit_failures(fl, f[1], f[2])
    IN  [st |-> IF r.count >= FailMax
                THEN set_circuit_state(st, "open", ResetTimeout, f[3])
                ELSE st,
         fl |-> r.key]

(***************************************************************************)
(* core/llm_gateway.py: _try_instructor and the clients' generate: the     *)
(* outcome of the provider request becomes a result or None.               *)
(***************************************************************************)
Outcomes == {"ok", "timeout", "error"}

try_instructor_Propagate(outcome) ==
    IF outcome = "ok" THEN "result"
    ELSE IF outcome = "timeout" THEN "None" ELSE "raise"

try_instructor(outcome) ==
    IF outcome = "ok" THEN "result" ELSE "None"

\* GroqClient.generate / OpenRouterClient._call: LLMResponse.success
client_call(outcome) == outcome = "ok"

(***************************************************************************)
(* Results                                                                 *)
(***************************************************************************)
NoResult == [kind |-> "none", ok |-> FALSE, text |-> "", tag |-> "", provider |-> ""]

\* ChatResponse(should_respond=False, response_text="", mood="neutral")
DefaultChat ==
    [kind |-> "chat", ok |-> FALSE, text |-> "", tag |-> "neutral", provider |-> ""]

\* the ChatResponse the provider produced
ProviderChat(p, respond) ==
    [kind |-> "chat", ok |-> respond, text |-> IF respond THEN "reply" ELSE "",
     tag |-> "neutral", provider |-> p]

\* LLMResponse(success=False, error="all_down", provider="none")
AllDown == [kind |-> "llm", ok |-> FALSE, text |-> "", tag |-> "all_down", provider |-> "none"]

\* LLMResponse(success=False, content="", error="vision_unavailable", provider="openrouter")
VisionUnavailable ==
    [kind |-> "llm", ok |-> FALSE, text |-> "", tag |-> "vision_unavailable",
     provider |-> "openrouter"]

ProviderLLM(p) == [kind |-> "llm", ok |-> TRUE, text |-> "reply", tag |-> "", provider |-> p]

NoLog == [readOpen |-> {}, issued |-> {}, issuedOpen |-> {}, okFrom |-> {},
          recorded |-> {}]

OkSet == IF faults THEN BOOLEAN ELSE {TRUE}

(***************************************************************************)
(* core/context_manager.py: ContextManager.format.  A block is the text    *)
(* "label\ncontent"; the model keeps its token count (count_tokens).       *)
(***************************************************************************)
\* `if remaining > 50`
MinRemaining == 50
\* token counts are multiples of SizeStep, up to MaxUnits of them per block
SizeStep == 30
MaxUnits == 3
\* token budgets are 1..BudgetUnits times SizeStep
BudgetUnits == 5
\* decoding a cut token list and encoding it again moves the count by this much
MaxDrift == 1

Sizes == {k * SizeStep : k \in 0..MaxUnits}
Budgets == {k * SizeStep : k \in 1..BudgetUnits}

Priority(label) ==
    CASE label = "[MEMORIES]" -> 2
      [] label = "[SEMANTIC RECALL]" -> 3
      [] label = "[REPLY CONTEXT]" -> 5
      [] label = "[RECENT CHAT]" -> 1
      [] label = "[CURRENT]" -> 5

Trimmable == {"[RECENT CHAT]", "[MEMORIES]", "[SEMANTIC RECALL]"}
NeverTrim == {"[REPLY CONTEXT]", "[CURRENT]"}

Section(label, tokens) == [label |-> label, tokens |-> tokens, priority |-> Priority(label)]

\* sections.append(...) in source order; a section whose list is empty is not added
Sections(in) ==
       (IF in.mem > 0 THEN <<Section("[MEMORIES]", in.mem)>> ELSE <<>>)
    \o (IF in.sem > 0 THEN <<Section("[SEMANTIC RECALL]", in.sem)>> ELSE <<>>)
    \o (IF in.chain > 0 THEN <<Section("[REPLY CONTEXT]", in.chain)>> ELSE <<>>)
    \o (IF in.hist > 0 THEN <<Section("[RECENT CHAT]", in.hist)>> ELSE <<>>)
    \o <<Section("[CURRENT]", in.cur)>>

\* list.sort(key=priority, reverse=True): stable, equal priorities keep their order
RECURSIVE InsertByPriority(_, _)
InsertByPriority(sorted, x) ==
    IF sorted = <<>> THEN <<x>>
    ELSE IF Head(sorted).priority >= x.priority
         THEN <<Head(sorted)>> \o InsertByPriority(Tail(sorted), x)
         ELSE <<x>> \o sorted

RECURSIVE SortByPriority(_)
SortByPriority(secs) ==
    IF secs = <<>> THEN <<>>
    ELSE InsertByPriority(SortByPriority(SubSeq(secs, 1, Len(secs) - 1)), secs[Len(secs)])

\* _trim_to_tokens: the first max_tokens tokens, or the text itself if it is shorter
trim_to_tokens(tokens, max_tokens) ==
    IF tokens <= max_tokens THEN [tokens |-> tokens, full |-> TRUE]
    ELSE [tokens |-> max_tokens, full |-> FALSE]

\* count_tokens(trimmed): the decoded cut text, encoded again
Recount(t, drift) ==
    IF t.full THEN t.tokens ELSE IF t.tokens + drift < 0 THEN 0 ELSE t.tokens + drift

over_budget_AnyPriority(used_tokens, block_tokens, token_budget, priority) ==
    used_tokens + block_tokens > token_budget

\* `if used_tokens + block_tokens > token_budget and priority < 5`
over_budget(used_tokens, block_tokens, token_budget, priority) ==
    used_tokens + block_tokens > token_budget /\ priority < 5

\* one iteration of `for label, content, priority in sections`
FormatStep(acc, sec, token_budget, drift) ==
    IF over_budget(acc.used, sec.tokens, token_budget, sec.priority)
    THEN LET remaining == token_budget - acc.used
         IN  IF remaining > MinRemaining
             THEN LET t == trim_to_tokens(sec.tokens, remaining)
                  IN  [parts |-> Append(acc.parts,
                                        [label |-> sec.label, tokens |-> t.tokens,
                                         full |-> t.full]),
                       used |-> acc.used + Recount(t, drift)]
             ELSE acc
    ELSE [parts |-> Append(acc.parts,
                           [label |-> sec.label, tokens |-> sec.tokens, full |-> TRUE]),
          used |-> acc.used + sec.tokens]

RECURSIVE FormatLoop(_, _, _, _)
FormatLoop(acc, secs, token_budget, drift) ==
    IF secs = <<>> THEN acc
    ELSE FormatLoop(FormatStep(acc, Head(secs), token_budget, drift),
                    Tail(secs), token_budget, drift)

\* the parts of "\n\n".join(final_parts)
Format(in) ==
    FormatLoop([parts |-> <<>>, used |-> 0], SortByPriority(Sections(in)),
               in.budget, in.drift).parts

FmtInputs ==
    [mem : Sizes, sem : Sizes, chain : Sizes, hist : Sizes, cur : Sizes \ {0},
     budget : Budgets, drift : (0 - MaxDrift)..MaxDrift]

FmtIdle ==
    /\ fmtIn = [mem |-> 0, sem |-> 0, chain |-> 0, hist |-> 0, cur |-> SizeStep,
                budget |-> SizeStep, drift |-> 0]
    /\ fmtOut = <<>>
    /\ fmtPhase = "input"

FmtInit ==
    /\ fmtIn \in FmtInputs
    /\ fmtOut = <<>>
    /\ fmtPhase = "input"

\* context_mgr.format(context, message, token_budget)
DoFormat ==
    /\ fmtPhase = "input"
    /\ fmtOut' = Format(fmtIn)
    /\ fmtPhase' = "done"
    /\ UNCHANGED <<fmtIn, nonFormat>>

FormatNext == DoFormat

(***************************************************************************)
(* Python values                                                           *)
(***************************************************************************)
None == "None"

\* str(x)
Str(x) == IF x = None THEN "None" ELSE x

\* a or b
PyOr(a, b) == IF a # None /\ a # "" THEN a ELSE b

\* d.get(key, default)
DictGet(d, key, default) == IF key \in DOMAIN d THEN d[key] ELSE default

(***************************************************************************)
(* database/memory_store.py: semantic_search, and ContextManager.build     *)
(***************************************************************************)
Msgs == {"m0", "m1", "m2", "m3", "m4"}
\* the message that triggered the build
TriggerId == "m0"
\* messages saved to conversation_log before the build: the triggering message
\* is saved only after its response
LogMsgs == Msgs \ {TriggerId}
\* created_at of a message
CreatedAt(m) ==
    CASE m = "m4" -> 0 [] m = "m1" -> 1 [] m = "m2" -> 2 [] m = "m3" -> 3 [] m = "m0" -> 4

\* similarity in tenths; `row["similarity"] > 0.3`
SimThreshold == 3
Sims == {2, 6}
\* settings.context.semantic_retrieval_limit
SemanticLimit == 3
\* rows of conversation_log in the channel and window that carry an embedding
MaxRows == 4

\* ORDER BY similarity DESC; rows of equal similarity come in table order
RECURSIVE InsertBySimilarity(_, _)
InsertBySimilarity(sorted, r) ==
    IF sorted = <<>> THEN <<r>>
    ELSE IF Head(sorted).similarity >= r.similarity
         THEN <<Head(sorted)>> \o InsertBySimilarity(Tail(sorted), r)
         ELSE <<r>> \o sorted

RECURSIVE OrderBySimilarity(_)
OrderBySimilarity(rows) ==
    IF rows = <<>> THEN <<>>
    ELSE InsertBySimilarity(OrderBySimilarity(SubSeq(rows, 1, Len(rows) - 1)),
                            rows[Len(rows)])

\* the dict semantic_search builds of a row.  The query does not select the
\* message_id column; row_message_id records it for the claims only, under a key
\* the code never reads.
ResultDict(r) ==
    [user_id |-> "u1", content |-> "text", is_bot |-> FALSE,
     created_at |-> CreatedAt(r.message_id), similarity |-> r.similarity,
     row_message_id |-> r.message_id]

semantic_search(rows, limit) ==
    LET ordered == OrderBySimilarity(rows)
        limited == SubSeq(ordered, 1, IF Len(ordered) < limit THEN Len(ordered) ELSE limit)
        Passes(r) == r.similarity > SimThreshold
        kept == SelectSeq(limited, Passes)
    IN  [i \in 1..Len(kept) |-> ResultDict(kept[i])]

\* _semantic_retrieval: no router, short content, no embedding or an error give []
semantic_retrieval(retrieval, rows) ==
    IF retrieval # "ok" THEN <<>> ELSE semantic_search(rows, SemanticLimit)

\* list.sort(key=lambda x: x.get("timestamp", 0)): stable, ascending
RECURSIVE InsertByTimestamp(_, _)
InsertByTimestamp(sorted, x) ==
    IF sorted = <<>> THEN <<x>>
    ELSE IF DictGet(Head(sorted), "timestamp", 0) <= DictGet(x, "timestamp", 0)
         THEN <<Head(sorted)>> \o InsertByTimestamp(Tail(sorted), x)
         ELSE <<x>> \o sorted

RECURSIVE SortByTimestamp(_)
SortByTimestamp(xs) ==
    IF xs = <<>> THEN <<>>
    ELSE InsertByTimestamp(SortByTimestamp(SubSeq(xs, 1, Len(xs) - 1)), xs[Len(xs)])

\* res_id = str(res.get("message_id") or res.get("id"))
ResId(res) == Str(PyOr(DictGet(res, "message_id", None), DictGet(res, "id", None)))

SeenIds(history, chain, message_id) ==
    {history[i] : i \in 1..Len(history)} \cup {chain[i] : i \in 1..Len(chain)}
        \cup {Str(message_id)}

\* ContextManager.build, steps 1, 2 and 4: history and reply chain as fetched
Build(in) ==
    LET raw_semantic == semantic_retrieval(in.retrieval, in.rows)
        seen_ids == SeenIds(in.history, in.chain, TriggerId)
        NotSeen(res) == ResId(res) \notin seen_ids
        unique_semantic == SelectSeq(raw_semantic, NotSeen)
    IN  [reply_chain |-> in.chain,
         channel_history |-> in.history,
         semantic_results |-> SortByTimestamp(unique_semantic)]

Distinct(rows) ==
    \A i \in 1..Len(rows), j \in 1..Len(rows) :
        i # j => rows[i].message_id # rows[j].message_id

RowSeqs ==
    UNION {{rows \in [1..n -> [message_id : LogMsgs, similarity : Sims]] : Distinct(rows)}
           : n \in 0..MaxRows}

\* _get_channel_history: oldest first, never the triggering message
Histories == {<<>>, <<"m1">>, <<"m2">>, <<"m1", "m2">>}
\* _trace_reply_chain: closest parent first
Chains == {<<>>, <<"m1">>, <<"m3">>, <<"m3", "m1">>}
Retrievals == {"ok", "skipped", "failed"}

NoCtx == [reply_chain |-> <<>>, channel_history |-> <<>>, semantic_results |-> <<>>]

BldIdle ==
    /\ bldIn = [rows |-> <<>>, history |-> <<>>, chain |-> <<>>, retrieval |-> "ok"]
    /\ bldCtx = NoCtx
    /\ bldPhase = "input"

BldInit ==
    /\ bldIn \in [rows : RowSeqs, history : Histories, chain : Chains,
                   retrieval : Retrievals]
    /\ bldCtx = NoCtx
    /\ bldPhase = "input"

\* context = await self._context_mgr.build(message)
DoBuild ==
    /\ bldPhase = "input"
    /\ bldCtx' = Build(bldIn)
    /\ bldPhase' = "done"
    /\ UNCHANGED <<bldIn, nonBuild>>

BuildNext == DoBuild

(***************************************************************************)
(* database/persona_store.py                                               *)
(***************************************************************************)
\* no row / json null / Python None where a dict is expected
NoRow == [none |-> TRUE]

\* CACHE_TTL
CACHE_TTL == 600
\* ttl of the null entry a write leaves in the cache
InvalidateTtl == 1

NoEntry == [kind |-> "none"]

\* rc.cache_get: a missing key, null and any store error give None
cache_get(entry) == IF entry.kind = "data" THEN entry.val ELSE NoRow

\* rc.cache_set: setex(key, ttl_seconds, orjson.dumps(value))
cache_set(value, ttl_seconds) ==
    IF value = NoRow THEN [kind |-> "null", ttl |-> ttl_seconds]
    ELSE [kind |-> "data", val |-> value, ttl |-> ttl_seconds]

server_row_data_Default(row) ==
    [preset |-> IF row # NoRow THEN row.preset ELSE "default",
     quirk_intensity |-> IF row # NoRow THEN row.quirk_intensity ELSE "heavy"]

\* the dict get_server_persona builds of the row, or of no row
server_row_data(row) ==
    [preset |-> IF row # NoRow THEN row.preset ELSE "twomoon",
     quirk_intensity |-> IF row # NoRow THEN row.quirk_intensity ELSE "heavy"]

\* get_server_persona: the value returned and the cache entry left
get_server_persona(entry, row) ==
    LET cached == cache_get(entry)
    IN  IF cached # NoRow THEN [ret |-> cached, cache |-> entry]
        ELSE [ret |-> server_row_data(row),
              cache |-> cache_set(server_row_data(row), CACHE_TTL)]

\* get_user_persona
get_user_persona(entry, row) ==
    LET cached == cache_get(entry)
    IN  IF cached # NoRow THEN [ret |-> cached, cache |-> entry]
        ELSE IF row = NoRow THEN [ret |-> NoRow, cache |-> entry]
        ELSE [ret |-> row, cache |-> cache_set(row, CACHE_TTL)]

resolve_persona_ServerFirst(user_p, server_p) ==
    [source |-> "server", preset |-> server_p.preset,
     quirk_intensity |-> server_p.quirk_intensity, style_sample |-> None]

\* get_effective_persona, after the two reads
resolve_persona(user_p, server_p) ==
    IF user_p # NoRow /\ PyOr(user_p.preset, None) # None
    THEN [source |-> "user", preset |-> user_p.preset,
          quirk_intensity |-> PyOr(user_p.quirk_intensity, server_p.quirk_intensity),
          style_sample |-> user_p.style_sample]
    ELSE [source |-> "server", preset |-> server_p.preset,
          quirk_intensity |-> server_p.quirk_intensity, style_sample |-> None]

\* COALESCE($n, old)
Coalesce(new, old) == IF new # None THEN new ELSE old

UserPresets == {"homie", "matchuser"}
ServerPresets == {"twomoon", "mentor"}
Quirks == {"light", "heavy"}
Styles == {"sample"}

NoEff == [none |-> TRUE]

PerIdle ==
    /\ perUser = NoRow
    /\ perServer = NoRow
    /\ cacheUp = NoEntry
    /\ cacheSp = NoEntry
    /\ perEff = NoEff
    /\ prPc = "idle"
    /\ prUserP = NoRow
    /\ prServerP = NoRow
    /\ prAfter = FALSE
    /\ pwPc = "idle"
    /\ pwDone = FALSE

\* INSERT ... ON CONFLICT (user_id) DO UPDATE SET ... COALESCE
upsert_user_persona(row, preset, quirk_intensity, style_sample) ==
    IF row = NoRow
    THEN [preset |-> preset, quirk_intensity |-> quirk_intensity,
          style_sample |-> style_sample]
    ELSE [preset |-> Coalesce(preset, row.preset),
          quirk_intensity |-> Coalesce(quirk_intensity, row.quirk_intensity),
          style_sample |-> Coalesce(style_sample, row.style_sample)]

\* set_user_persona: upsert, then the cache entry is replaced by a short-lived null
SetUserPersona(preset, quirk_intensity, style_sample) ==
    /\ perUser' = upsert_user_persona(perUser, preset, quirk_intensity, style_sample)
    /\ cacheUp' = cache_set(NoRow, InvalidateTtl)
    /\ perEff' = NoEff
    /\ UNCHANGED <<perServer, cacheSp, nonPersona>>

\* reset_user_persona
ResetUserPersona ==
    /\ perUser' = NoRow
    /\ cacheUp' = cache_set(NoRow, InvalidateTtl)
    /\ perEff' = NoEff
    /\ UNCHANGED <<perServer, cacheSp, nonPersona>>

\* set_server_persona
SetServerPersona(preset, quirk_intensity) ==
    /\ perServer' = [preset |-> preset, quirk_intensity |-> quirk_intensity]
    /\ cacheSp' = cache_set(NoRow, InvalidateTtl)
    /\ perEff' = NoEff
    /\ UNCHANGED <<perUser, cacheUp, nonPersona>>

\* get_effective_persona
GetEffectivePersona ==
    LET u == get_user_persona(cacheUp, perUser)
        sv == get_server_persona(cacheSp, perServer)
    IN  /\ cacheUp' = u.cache
        /\ cacheSp' = sv.cache
        /\ perEff' = resolve_persona(u.ret, sv.ret)
        /\ UNCHANGED <<perUser, perServer, nonPersona>>

\* a cache entry reaches the end of its ttl
ExpireUserCache ==
    /\ cacheUp # NoEntry
    /\ cacheUp' = NoEntry
    /\ UNCHANGED <<perUser, perServer, cacheSp, perEff, nonPersona>>

ExpireServerCache ==
    /\ cacheSp # NoEntry
    /\ cacheSp' = NoEntry
    /\ UNCHANGED <<perUser, perServer, cacheUp, perEff, nonPersona>>

PersonaNext ==
    \/ \E preset \in UserPresets \cup {None}, quirk \in Quirks \cup {None},
          style \in Styles \cup {None} : SetUserPersona(preset, quirk, style)
    \/ ResetUserPersona
    \/ \E preset \in ServerPresets, quirk \in Quirks : SetServerPersona(preset, quirk)
    \/ GetEffectivePersona
    \/ ExpireUserCache
    \/ ExpireServerCache

(***************************************************************************)
(* database/persona_store.py, one store command per step: a                *)
(* get_effective_persona call and a write that run together.               *)
(***************************************************************************)
\* get_effective_persona is called
PrStart ==
    /\ prPc \in {"idle", "done"}
    /\ prPc' = "up_get"
    /\ prUserP' = NoRow
    /\ prServerP' = NoRow
    /\ prAfter' = (pwPc = "idle" /\ pwDone)
    /\ perEff' = NoEff
    /\ UNCHANGED <<perUser, perServer, cacheUp, cacheSp, pwPc, pwDone, nonPersonaRace>>

\* get_user_persona: cached = await rc.cache_get(redis, f"up:{user_id}")
PrUserCacheGet ==
    /\ prPc = "up_get"
    /\ LET cached == cache_get(cacheUp)
       IN  IF cached # NoRow
           THEN prUserP' = cached /\ prPc' = "sp_get"
           ELSE prUserP' = prUserP /\ prPc' = "up_db"
    /\ UNCHANGED <<perUser, perServer, cacheUp, cacheSp, perEff, prServerP, prAfter, pwPc,
                   pwDone, nonPersonaRace>>

\* get_user_persona: row = await fetchrow(...); `if not row: return None`
PrUserDb ==
    /\ prPc = "up_db"
    /\ prUserP' = perUser
    /\ prPc' = IF perUser = NoRow THEN "sp_get" ELSE "up_set"
    /\ UNCHANGED <<perUser, perServer, cacheUp, cacheSp, perEff, prServerP, prAfter, pwPc,
                   pwDone, nonPersonaRace>>

\* get_user_persona: await rc.cache_set(redis, f"up:{user_id}", data, CACHE_TTL)
PrUserCacheSet ==
    /\ prPc = "up_set"
    /\ cacheUp' = cache_set(prUserP, CACHE_TTL)
    /\ prPc' = "sp_get"
    /\ UNCHANGED <<perUser, perServer, cacheSp, perEff, prUserP, prServerP, prAfter, pwPc,
                   pwDone, nonPersonaRace>>

\* get_server_persona: cached = await rc.cache_get(redis, f"sp:{server_id}");
\* on a hit get_effective_persona resolves and returns
PrServerCacheGet ==
    /\ prPc = "sp_get"
    /\ LET cached == cache_get(cacheSp)
       IN  IF cached # NoRow
           THEN /\ prServerP' = cached
                /\ perEff' = resolve_persona(prUserP, cached)
                /\ prPc' = "done"
           ELSE /\ prPc' = "sp_db"
                /\ UNCHANGED <<prServerP, perEff>>
    /\ UNCHANGED <<perUser, perServer, cacheUp, cacheSp, prUserP, prAfter, pwPc, pwDone,
                   nonPersonaRace>>

\* get_server_persona: row = await fetchrow(...); data = {...}
PrServerDb ==
    /\ prPc = "sp_db"
    /\ prServerP' = server_row_data(perServer)
    /\ prPc' = "sp_set"
    /\ UNCHANGED <<perUser, perServer, cacheUp, cacheSp, perEff, prUserP, prAfter, pwPc,
                   pwDone, nonPersonaRace>>

\* get_server_persona: await rc.cache_set(...); get_effective_persona resolves
PrServerCacheSet ==
    /\ prPc = "sp_set"
    /\ cacheSp' = cache_set(prServerP, CACHE_TTL)
    /\ perEff' = resolve_persona(prUserP, prServerP)
    /\ prPc' = "done"
    /\ UNCHANGED <<perUser, perServer, cacheUp, prUserP, prServerP, prAfter, pwPc, pwDone,
                   nonPersonaRace>>

\* set_user_persona: await execute(INSERT ... ON CONFLICT ...)
PwSetUser(preset, quirk_intensity, style_sample) ==
    /\ pwPc = "idle"
    /\ perUser' = upsert_user_persona(perUser, preset, quirk_intensity, style_sample)
    /\ pwPc' = "up"
    /\ prAfter' = FALSE
    /\ UNCHANGED <<perServer, cacheUp, cacheSp, perEff, prPc, prUserP, prServerP, pwDone,
                   nonPersonaRace>>

\* reset_user_persona: await execute(DELETE ...)
PwResetUser ==
    /\ pwPc = "idle"
    /\ perUser # NoRow
    /\ perUser' = NoRow
    /\ pwPc' = "up"
    /\ prAfter' = FALSE
    /\ UNCHANGED <<perServer, cacheUp, cacheSp, perEff, prPc, prUserP, prServerP, pwDone,
                   nonPersonaRace>>

\* set_server_persona: await execute(INSERT ... ON CONFLICT ...)
PwSetServer(preset, quirk_intensity) ==
    /\ pwPc = "idle"
    /\ perServer' = [preset |-> preset, quirk_intensity |-> quirk_intensity]
    /\ pwPc' = "sp"
    /\ prAfter' = FALSE
    /\ UNCHANGED <<perUser, cacheUp, cacheSp, perEff, prPc, prUserP, prServerP, pwDone,
                   nonPersonaRace>>

\* the write's last step: await rc.cache_set(redis, key, None, 1)
PwInvalidate ==
    /\ pwPc \in {"up", "sp"}
    /\ IF pwPc = "up"
       THEN cacheUp' = cache_set(NoRow, InvalidateTtl) /\ cacheSp' = cacheSp
       ELSE cacheSp' = cache_set(NoRow, InvalidateTtl) /\ cacheUp' = cacheUp
    /\ pwPc' = "idle"
    /\ pwDone' = TRUE
    /\ UNCHANGED <<perUser, perServer, perEff, prPc, prUserP, prServerP, prAfter,
                   nonPersonaRace>>

PersonaRaceNext ==
    \/ PrStart
    \/ PrUserCacheGet
    \/ PrUserDb
    \/ PrUserCacheSet
    \/ PrServerCacheGet
    \/ PrServerDb
    \/ PrServerCacheSet
    \/ \E preset \in UserPresets : PwSetUser(preset, None, None)
    \/ PwResetUser
    \/ \E preset \in ServerPresets : PwSetServer(preset, "heavy")
    \/ PwInvalidate
    \/ ExpireUserCache
    \/ ExpireServerCache

(***************************************************************************)
(* Message text.  A text is whitespace-separated words between optional    *)
(* surrounding whitespace; a word is a run of chunks (a chunk is a piece   *)
(* of text without whitespace); `upper` says that letters are upper case.  *)
(***************************************************************************)
\* characters of a chunk; "lorem" stands for a 500-character run
ChunkLen(c) ==
    CASE c = "morning" -> 7 [] c = "night" -> 5 [] c = "thanks" -> 6
      [] c = "hello" -> 5 [] c = "whats" -> 5 [] c = "up" -> 2
      [] c = "bye" -> 3 [] c = "!" -> 1 [] c = "lorem" -> 500
      [] c = "see" -> 3 [] c = "ya" -> 2

RECURSIVE WordLen(_)
WordLen(w) == IF w = <<>> THEN 0 ELSE ChunkLen(Head(w)) + WordLen(Tail(w))

RECURSIVE WordsLen(_)
WordsLen(ws) ==
    IF ws = <<>> THEN 0
    ELSE WordLen(Head(ws)) + (IF Len(ws) > 1 THEN 1 ELSE 0) + WordsLen(Tail(ws))

\* len(content)
TextLen(content) == 2 * content.ws + WordsLen(content.words)

\* content.strip()
StrStrip(content) == [content EXCEPT !.ws = 0]

\* content.lower()
StrLower(content) == [content EXCEPT !.upper = FALSE]

\* set(content.split()), compared with lower-case keywords: an upper-case
\* word equals none of them
SplitWords(content) ==
    IF content.upper THEN {} ELSE {content.words[i] : i \in 1..Len(content.words)}

\* the characters of the text between its surrounding whitespace
RECURSIVE JoinWords(_)
JoinWords(ws) ==
    IF ws = <<>> THEN <<>>
    ELSE IF Len(ws) = 1 THEN Head(ws)
    ELSE Head(ws) \o <<" ">> \o JoinWords(Tail(ws))

\* `phrase in content`
StrContains(content, phrase) ==
    LET flat == JoinWords(content.words)
    IN  /\ ~content.upper
        /\ \E i \in 1..Len(flat) :
              /\ i + Len(phrase) - 1 <= Len(flat)
              /\ SubSeq(flat, i, i + Len(phrase) - 1) = phrase

\* `not content`
StrEmpty(content) == TextLen(content) = 0

InputWords ==
    {<<"morning">>, <<"morning", "!">>, <<"night">>, <<"thanks">>, <<"hello">>,
     <<"whats">>, <<"up">>, <<"bye">>, <<"see">>, <<"ya">>,
     <<"lorem">>, <<"lorem", "!">>}
\* words in a message
MaxWords == 2
Texts ==
    [ws : {0, 1}, upper : BOOLEAN,
     words : UNION {[1..n -> InputWords] : n \in 0..MaxWords}]

(***************************************************************************)
(* core/router.py: LocalRouter                                             *)
(***************************************************************************)
\* `len(cleaned) > 500`
MaxCleanLen == 500
\* confidences in hundredths
FullConfidence == 100

CHITCHAT_RESPONSES ==
    [greeting |-> <<"yo", "hey", "sup", "halo", "yo wassup", "eh ada", "oi", "yoo">>,
     greeting_morning |-> <<"pagi", "gm", "morning", "pagi juga", "yo pagi", "met pagi">>,
     greeting_night |-> <<"night", "gn", "malam", "nite", "tidur sana", "met malam">>,
     how_are_you |-> <<"chillin, you?", "biasa aja", "fine", "santai, lu?", "good good",
                       "ya gitu deh">>,
     thanks |-> <<"np", "no prob", "santai", "yoi", "sama sama", "anytime">>,
     bye |-> <<"see ya", "bye", "dadah", "later", "sampai nanti", "peace">>,
     whats_up |-> <<"nothing much", "biasa aja", "chillin", "gitu gitu aja", "santai",
                    "lagi gabut">>]

\* keywords as chunk sequences; a keyword of several words has " " chunks
GREETING_KEYWORDS ==
    {<<"hi">>, <<"hello">>, <<"hey">>, <<"yo">>, <<"sup">>, <<"halo">>, <<"hai">>, <<"hei">>}
MORNING_KEYWORDS == {<<"morning">>, <<"gm">>, <<"pagi">>}
NIGHT_KEYWORDS == {<<"night">>, <<"gn">>, <<"malam">>}
HOW_ARE_YOU_KEYWORDS ==
    {<<"how", " ", "are", " ", "you">>, <<"apa", " ", "kabar">>, <<"gimana", " ", "kabarnya">>}
THANKS_KEYWORDS ==
    {<<"thanks">>, <<"thank">>, <<"thx">>, <<"ty">>, <<"makasih">>,
     <<"terima", " ", "kasih">>, <<"mksh">>}
BYE_KEYWORDS ==
    {<<"bye">>, <<"goodbye">>, <<"dadah">>, <<"see", " ", "ya">>, <<"see", " ", "you">>,
     <<"sampai">>}
WHATS_UP_KEYWORDS ==
    {<<"whats", " ", "up">>, <<"what's", " ", "up">>, <<"wassup">>, <<"ngapain">>,
     <<"lagi", " ", "ngapain">>}

\* _phrase_match
phrase_match(content, phrases) == \E phrase \in phrases : StrContains(content, phrase)

\* random.choice(pool); rnd is the random draw
random_choice(pool, rnd) == pool[1 + (rnd % Len(pool))]
RandomDraws == 0..(Len(CHITCHAT_RESPONSES.greeting) - 1)

\* _pick_chitchat_response: the pool the reply is drawn from
pick_chitchat_intent(content) ==
    LET words == SplitWords(content)
    IN  IF words \cap MORNING_KEYWORDS # {} THEN "greeting_morning"
        ELSE IF words \cap NIGHT_KEYWORDS # {} THEN "greeting_night"
        ELSE IF words \cap THANKS_KEYWORDS # {} THEN "thanks"
        ELSE IF words \cap BYE_KEYWORDS # {} THEN "bye"
        ELSE IF words \cap WHATS_UP_KEYWORDS # {}
                \/ phrase_match(content, WHATS_UP_KEYWORDS) THEN "whats_up"
        ELSE IF phrase_match(content, HOW_ARE_YOU_KEYWORDS) THEN "how_are_you"
        ELSE IF words \cap GREETING_KEYWORDS # {} THEN "greeting"
        ELSE "greeting"

pick_chitchat_response(content, rnd) ==
    random_choice(CHITCHAT_RESPONSES[pick_chitchat_intent(content)], rnd)

\* RouteResult(route, confidence, chitchat_response); layer_called records
\* whether self._route_layer(cleaned) was invoked
RouteResult(route, confidence, chitchat_response, layer_called) ==
    [route |-> route, confidence |-> confidence,
     chitchat_response |-> chitchat_response, layer_called |-> layer_called]

\* what self._route_layer(cleaned) does: raise, or a result with a name (or
\* None) and a similarity score in hundredths (has_score false: None)
LayerOutcomes ==
    [raises : {TRUE}, name : {None}, has_score : {FALSE}, similarity_score : {0}]
        \cup [raises : {FALSE}, name : {None, "ignore", "chitchat", "llm_required"},
              has_score : {TRUE}, similarity_score : {0, 85}]
        \cup [raises : {FALSE}, name : {None, "ignore", "chitchat", "llm_required"},
              has_score : {FALSE}, similarity_score : {0}]

vision_bypass_TextOnly(content, has_image) == has_image /\ StrEmpty(content)

\* `if has_image`
vision_bypass(content, has_image) == has_image

gate_down_Never(ready, route_layer) == FALSE

\* `if not self._ready or self._route_layer is None`
gate_down(ready, route_layer) == ~ready \/ ~route_layer

length_bypass_Empty(cleaned) == StrEmpty(cleaned)

\* `if not cleaned or len(cleaned) > 500`
length_bypass(cleaned) == StrEmpty(cleaned) \/ TextLen(cleaned) > MaxCleanLen

no_match_Never(layer) == FALSE

\* `if result.name is None`
no_match(layer) == layer.name = None

\* LocalRouter.classify
classify(ready, route_layer, content, has_image, layer, rnd) ==
    IF vision_bypass(content, has_image)
    THEN RouteResult("vision", FullConfidence, None, FALSE)
    ELSE IF gate_down(ready, route_layer)
    THEN RouteResult("llm_required", 0, None, FALSE)
    ELSE LET cleaned == StrLower(StrStrip(content))
         IN  IF length_bypass(cleaned)
             THEN RouteResult(IF StrEmpty(cleaned) THEN "ignore" ELSE "llm_required",
                              FullConfidence, None, FALSE)
             ELSE IF layer.raises THEN RouteResult("llm_required", 0, None, TRUE)
             ELSE IF no_match(layer) THEN RouteResult("llm_required", 0, None, TRUE)
             ELSE RouteResult(layer.name,
                              IF layer.has_score THEN layer.similarity_score ELSE 0,
                              IF layer.name = "chitchat"
                              THEN pick_chitchat_response(cleaned, rnd) ELSE None,
                              TRUE)

NoRoute == [none |-> TRUE]
NoRouteIn == [none |-> TRUE]

\* LocalRouter.__init__
RouterNew ==
    /\ rtReady = FALSE
    /\ rtLayer = FALSE
    /\ rtEncoder = FALSE

\* after setup_hook: initialize succeeded or failed
RouterStarted ==
    /\ rtReady \in BOOLEAN
    /\ rtLayer = rtReady
    /\ rtEncoder \in BOOLEAN
    /\ rtReady => rtEncoder

RtIdle ==
    /\ rtIn = NoRouteIn
    /\ rtOut = NoRoute

\* LocalRouter.initialize, run once by setup_hook; the encoder or the route
\* layer may fail to load
Initialize(outcome) ==
    /\ ~rtReady /\ ~rtLayer /\ ~rtEncoder
    /\ rtEncoder' = (IF outcome = "encoder_failed" THEN rtEncoder ELSE TRUE)
    /\ rtLayer' = (IF outcome = "ok" THEN TRUE ELSE rtLayer)
    /\ rtReady' = (outcome = "ok")
    /\ UNCHANGED <<rtIn, rtOut, nonRouter>>

\* route_result = local_router.classify(content, has_image=...)
Classify(content, has_image, layer, rnd) ==
    /\ rtIn' = [content |-> content, has_image |-> has_image, layer |-> layer,
                ready |-> rtReady]
    /\ rtOut' = classify(rtReady, rtLayer, content, has_image, layer, rnd)
    /\ UNCHANGED <<rtReady, rtLayer, rtEncoder, nonRouter>>

RouterNext ==
    \/ \E outcome \in {"ok", "encoder_failed", "layer_failed"} : Initialize(outcome)
    \* one classification per behaviour: classify keeps no state between calls
    \/ /\ rtOut = NoRoute
       /\ \E content \in Texts, has_image \in BOOLEAN, layer \in LayerOutcomes,
             rnd \in RandomDraws :
                \* the draw is made for a chitchat answer only
                /\ layer.name = "chitchat" \/ rnd = 0
                /\ Classify(content, has_image, layer, rnd)

(***************************************************************************)
(* database/user_store.py                                                  *)
(***************************************************************************)
DisplayNames == {"ann", "annie"}
Langs == {"en", "id"}
\* interactions counted for one user
MaxInteractions == 3

NoTrip == [stage |-> "none"]

\* get_user: dict(row) if row else None
get_user(row) == row

\* INSERT INTO user_profiles (user_id, display_name, preferred_lang):
\* interaction_count takes its column default
insert_profile(display_name, preferred_lang) ==
    [display_name |-> display_name,
     preferred_lang |-> Coalesce(preferred_lang, "en"),
     interaction_count |-> 0]

update_profile_KeepName(row, display_name, preferred_lang) ==
    [display_name |-> row.display_name,
     preferred_lang |-> Coalesce(preferred_lang, row.preferred_lang),
     interaction_count |-> row.interaction_count + 1]

\* UPDATE user_profiles SET display_name, preferred_lang, interaction_count + 1
update_profile(row, display_name, preferred_lang) ==
    [display_name |-> display_name,
     preferred_lang |-> Coalesce(preferred_lang, row.preferred_lang),
     interaction_count |-> row.interaction_count + 1]

\* upsert_user: the row it leaves
upsert_user(row, display_name, preferred_lang) ==
    LET existing == get_user(row)
    IN  IF existing # NoRow THEN update_profile(row, display_name, preferred_lang)
        ELSE insert_profile(display_name, preferred_lang)

(***************************************************************************)
(* utils/text.py: detect_language, and the language step of on_message     *)
(***************************************************************************)
INDONESIAN_MARKERS ==
    {"aku", "kamu", "saya", "gw", "gue", "lu", "lo", "gak", "dong", "sih", "nih",
     "banget", "udah", "gimana", "apa", "ini", "itu", "bisa", "mau", "kan", "deh",
     "lah", "ya", "ngga", "nggak", "anjir", "wkwk", "awkwk", "cuk"}

\* a text is a sequence of lower-case words separated by one space; "kana",
\* "han" and "hangul" stand for one character of those ranges
Kana == {"kana"}
Han == {"han"}
Hangul == {"hangul"}
LangWords == {"gw", "mau", "ya", "hello", "ok", "kana", "han", "hangul"}
\* words in a text given to detect_language
MaxLangWords == 2
LangTexts == UNION {[1..n -> LangWords] : n \in 0..MaxLangWords}

LangWordLen(w) ==
    CASE w \in Kana \cup Han \cup Hangul -> 1
      [] w \in {"gw", "ya", "ok"} -> 2
      [] w = "mau" -> 3
      [] w = "hello" -> 5

RECURSIVE LangTextLen(_)
LangTextLen(text) ==
    IF text = <<>> THEN 0
    ELSE LangWordLen(Head(text)) + (IF Len(text) > 1 THEN 1 ELSE 0)
            + LangTextLen(Tail(text))

LangWordSet(text) == {text[i] : i \in 1..Len(text)}

\* detect_language
detect_language(text) ==
    IF text = <<>> \/ LangTextLen(text) < 3 THEN "en"
    ELSE IF LangWordSet(text) \cap Kana # {} THEN "ja"
    ELSE IF LangWordSet(text) \cap Han # {} THEN "zh"
    ELSE IF LangWordSet(text) \cap Hangul # {} THEN "ko"
    ELSE IF Cardinality(LangWordSet(text) \cap INDONESIAN_MARKERS) >= 2 THEN "id"
    ELSE "en"

\* ContextManager.build: ctx.language
context_language(user_profile) ==
    IF user_profile # NoRow THEN user_profile.preferred_lang ELSE "en"

\* on_message: language = detect_language(content) or context.language
resolve_language(content, user_profile) ==
    PyOr(detect_language(content), context_language(user_profile))

UsIdle ==
    /\ usRow = NoRow
    /\ usRet = NoRow
    /\ usTrip = NoTrip

\* await user_store.upsert_user(pool, user_id, display_name, language)
UpsertUser(display_name, preferred_lang) ==
    /\ usRow # NoRow => usRow.interaction_count < MaxInteractions
    /\ usRow' = upsert_user(usRow, display_name, preferred_lang)
    /\ usRet' = get_user(usRow')
    /\ usTrip' = [stage |-> "upserted", before |-> usRow, display_name |-> display_name]
    /\ UNCHANGED nonUsers

\* on_message, lines 107-120: the profile build read, the language, upsert_user
HandleLanguage(content, display_name) ==
    /\ usRow # NoRow => usRow.interaction_count < MaxInteractions
    /\ LET language == resolve_language(content, get_user(usRow))
       IN  /\ usRow' = upsert_user(usRow, display_name, language)
           /\ usRet' = get_user(usRow')
           /\ usTrip' = [stage |-> "handled", before |-> usRow, content |-> content,
                         language |-> language]
    /\ UNCHANGED nonUsers

\* await user_store.get_user(pool, user_id)
GetUser ==
    /\ usRet' = get_user(usRow)
    /\ usTrip' = IF usTrip.stage = "upserted" THEN [usTrip EXCEPT !.stage = "read"]
                 ELSE NoTrip
    /\ UNCHANGED <<usRow, nonUsers>>

UsersNext ==
    \/ \E display_name \in DisplayNames, preferred_lang \in Langs \cup {None} :
          UpsertUser(display_name, preferred_lang)
    \/ GetUser

LanguageNext ==
    \E content \in LangTexts, display_name \in DisplayNames :
        HandleLanguage(content, display_name)

(***************************************************************************)
(* services/redis_client.py: check_rate_limit, one store command per step  *)
(***************************************************************************)
\* settings.rate_limit.max_requests
MaxRequests == 2
\* settings.rate_limit.window_seconds
WindowSeconds == 60
\* seconds that pass in one step of the clock of the rate-limit key
RlTickSeconds == 30

\* redis.setex(key, window_seconds, 1)
RedisSetexCount(ttl, n) == [n |-> n, ttl |-> ttl]

\* redis.ttl(key): -2 without the key, -1 without an expiry; `sub` says that
\* less than half a second is left, which reads as 0
RedisTtl(k, sub) ==
    IF k = NoCounter THEN 0 - 2
    ELSE IF k.ttl = NoExpiry THEN 0 - 1
    ELSE IF sub /\ k.ttl <= RlTickSeconds THEN 0
    ELSE k.ttl

PyMax(a, b) == IF a >= b THEN a ELSE b

rate_exceeded_Above(count, max_requests) == count > max_requests

\* `if count >= max_requests`
rate_exceeded(count, max_requests) == count >= max_requests

\* the step after `current = await redis.get(key)`
after_rate_get(k, max_requests) ==
    IF k = NoCounter THEN "rate_setex"
    ELSE IF rate_exceeded(k.n, max_requests) THEN "rate_ttl"
    ELSE "rate_incr"

NoRate == [none |-> TRUE]
\* check_rate_limit calls of one user that may be in progress together
RateCalls == {"r1", "r2", "r3"}
Allowed(remaining) == [allowed |-> TRUE, remaining |-> remaining, reset_in |-> 0]
Denied(reset_in) == [allowed |-> FALSE, remaining |-> 0, reset_in |-> reset_in]

rate_on_error_Deny(max_requests) == Denied(1)

\* `except Exception`: {"allowed": True, "remaining": max_requests}
rate_on_error(max_requests) == Allowed(max_requests)

(***************************************************************************)
(* cogs/chat.py: ChatCog.on_message and _post_process                      *)
(***************************************************************************)
\* message.guild: none (a direct message), the allowed server, another server
Guilds == {"none", "allowed", "other"}
\* message.reference: none, a message of the bot, a message of someone else,
\* or one that cannot be fetched
References == {"none", "bot", "other", "fetch_fails"}

PlWordSeqs ==
    {<<>>, <<<<"hello">>>>, <<<<"morning">>>>, <<<<"morning", "!">>>>,
     <<<<"night">>, <<"morning">>>>, <<<<"lorem", "!">>>>}
PlTexts ==
    [ws : {1}, upper : {FALSE}, words : PlWordSeqs]
        \cup [ws : {1}, upper : {TRUE}, words : {<<<<"morning">>>>}]
PlainText == [ws |-> 1, upper |-> FALSE, words |-> <<<<"hello">>>>]

\* the messages the gateway delivers: every kind of sender, place and
\* addressing with a plain text, and every text and attachment for a plain
\* mention, in each kind of place
Messages ==
    {msg \in [author_bot : BOOLEAN, guild : Guilds, ignored_channel : BOOLEAN,
              mentioned : BOOLEAN, reference : References, content : PlTexts,
              image : BOOLEAN] :
        \/ msg.content = PlainText /\ ~msg.image
        \/ ~msg.author_bot /\ ~msg.ignored_channel /\ msg.mentioned /\ msg.reference = "none"}

NoMessage ==
    [author_bot |-> TRUE, guild |-> "allowed", ignored_channel |-> FALSE,
     mentioned |-> FALSE, reference |-> "none",
     content |-> [ws |-> 1, upper |-> FALSE, words |-> <<>>], image |-> FALSE]

\* _is_reply_to_bot
is_reply_to_bot(reference) == reference = "bot"

\* on_message, lines 53-69: TRUE when none of the early returns is taken
passes_trigger(msg) ==
    /\ ~msg.author_bot
    /\ ~(msg.guild # "none" /\ msg.guild # "allowed")
    /\ ~msg.ignored_channel
    /\ ~(~msg.mentioned /\ ~is_reply_to_bot(msg.reference))

\* sanitize(clean_bot_mentions(message.content, bot_id)): both end in strip()
CleanContent(msg) == StrStrip(msg.content)

after_classify_IgnoreFallsThrough(route_result) ==
    IF route_result.route = "chitchat" /\ route_result.chitchat_response # None
         /\ route_result.chitchat_response # ""
    THEN "canned"
    ELSE "rate_get"

\* the branch taken after classify
after_classify(route_result) ==
    IF route_result.route = "ignore" THEN "react"
    ELSE IF route_result.route = "chitchat" /\ route_result.chitchat_response # None
              /\ route_result.chitchat_response # ""
    THEN "canned"
    ELSE "rate_get"

after_send_Always(ok) == "spawn"

after_send_Never(ok) == "apology"

\* `await message.reply(reply_text)` then create_task, or the except branch
after_send(ok) == IF ok THEN "spawn" ELSE "apology"

ApologyText == "my brain glitched sry"

\* one entry of the record of what the handler did
Did(what, ok) == [op |-> what, kind |-> "", ok |-> ok, text |-> "", reset_in |-> 0]
Reply(kind, ok, text, reset_in) ==
    [op |-> "reply", kind |-> kind, ok |-> ok, text |-> text, reset_in |-> reset_in]

NoGen == [should_respond |-> FALSE, reply_text |-> ""]
\* what generate_chat / generate_vision give the handler
Generations == [should_respond : BOOLEAN, reply_text : {"", "generated text"}]

PlIdle ==
    /\ plMsg = NoMessage
    /\ plPc = "idle"
    /\ plRoute = NoRoute
    /\ plRate = NoRate
    /\ plMust = FALSE
    /\ plCount = 0
    /\ plGen = NoGen
    /\ plLog = <<>>
    /\ plExit = "running"
    /\ plRaisedAt = "none"
    /\ plTriggered = FALSE
    /\ ppPc = "none"
    /\ rlKey = NoCounter
    /\ rlWin = 0
    /\ rcPc = [c \in RateCalls |-> "idle"]
    /\ rcCount = [c \in RateCalls |-> 0]
    /\ rcRes = [c \in RateCalls |-> NoRate]

\* the gateway delivers a message to on_message
NewMessage(msg) ==
    /\ plPc = "idle"
    /\ plMsg' = msg
    /\ plPc' = "received"
    /\ UNCHANGED <<plRoute, plRate, plMust, plCount, plGen, plLog, plExit, plRaisedAt, plTriggered,
                   ppPc, rlKey, rlWin, rtState, nonPipeline>>

\* the handler and its task have ended: nothing of the message is kept but
\* the rate-limit key
Forget ==
    /\ plPc = "done" /\ ppPc \in {"none", "done"}
    /\ plMsg' = NoMessage
    /\ plPc' = "idle"
    /\ plRoute' = NoRoute
    /\ plRate' = NoRate
    /\ plMust' = FALSE
    /\ plCount' = 0
    /\ plGen' = NoGen
    /\ plLog' = <<>>
    /\ plExit' = "running"
    /\ plRaisedAt' = "none"
    /\ plTriggered' = FALSE
    /\ ppPc' = "none"
    /\ UNCHANGED <<rlKey, rlWin, rtState, nonPipeline>>

\* the handler returns
Finish(exit) ==
    /\ plPc' = "done"
    /\ plExit' = exit

\* an exception inside the try block: logged, then the apology
Caught(step) ==
    /\ plPc' = "apology"
    /\ plRaisedAt' = step
    /\ plLog' = Append(plLog, Did(step, FALSE))
    /\ UNCHANGED <<plExit>>

\* lines 53-69
TriggerCheck ==
    /\ plPc = "received"
    /\ IF passes_trigger(plMsg)
       THEN /\ plPc' = "classify"
            /\ plTriggered' = TRUE
            /\ UNCHANGED plExit
       ELSE /\ Finish("returned")
            /\ UNCHANGED plTriggered
    /\ UNCHANGED <<plMsg, plRoute, plRate, plMust, plCount, plGen, plLog, plRaisedAt, ppPc,
                   rlKey, rlWin, rtState, nonPipeline>>

\* lines 71-79
PlClassify(layer, rnd) ==
    /\ plPc = "classify"
    /\ plRoute' = classify(rtReady, rtLayer, CleanContent(plMsg), plMsg.image, layer, rnd)
    /\ plPc' = after_classify(plRoute')
    /\ UNCHANGED <<plMsg, plRate, plMust, plCount, plGen, plLog, plExit, plRaisedAt, plTriggered,
                   ppPc, rlKey, rlWin, rtState, nonPipeline>>

\* lines 81-84: _should_quick_react, _quick_react (its error is swallowed)
QuickReact(should, ok) ==
    /\ plPc = "react"
    /\ plLog' = IF should THEN Append(plLog, Did("reaction", ok)) ELSE plLog
    /\ Finish("returned")
    /\ UNCHANGED <<plMsg, plRoute, plRate, plMust, plCount, plGen, plRaisedAt, plTriggered, ppPc,
                   rlKey, rlWin, rtState, nonPipeline>>

\* lines 86-90; message.reply is outside the try block
CannedReply(ok) ==
    /\ plPc = "canned"
    /\ plLog' = Append(plLog, Reply("canned", ok, plRoute.chitchat_response, 0))
    /\ plRaisedAt' = IF ok THEN plRaisedAt ELSE "canned"
    /\ Finish(IF ok THEN "returned" ELSE "raised")
    /\ UNCHANGED <<plMsg, plRoute, plRate, plMust, plCount, plGen, plTriggered, ppPc,
                   rlKey, rlWin, rtState, nonPipeline>>

\* check_rate_limit, `except Exception`: the store command raised; the handler
\* goes on as after any allowed check
RateError ==
    /\ plRate' = rate_on_error(MaxRequests)
    /\ plLog' = Append(plLog, Did("rate_failed", TRUE))
    /\ plPc' = IF plRate'.allowed THEN "typing" ELSE "notice"

\* check_rate_limit: current = await redis.get(key)
RateGet(ok) ==
    /\ plPc = "rate_get"
    /\ plMust' = (rlWin >= MaxRequests)
    /\ IF ok
       THEN /\ plPc' = after_rate_get(rlKey, MaxRequests)
            /\ plCount' = IF rlKey = NoCounter THEN 0 ELSE rlKey.n
            /\ plLog' = Append(plLog, Did("rate_get", TRUE))
            /\ UNCHANGED plRate
       ELSE /\ RateError
            /\ UNCHANGED plCount
    /\ UNCHANGED <<plMsg, plRoute, plGen, plExit, plRaisedAt, plTriggered, ppPc,
                   rlKey, rlWin, rtState, nonPipeline>>

\* await redis.setex(key, window_seconds, 1); allowed
RateSetex(ok) ==
    /\ plPc = "rate_setex"
    /\ IF ok
       THEN /\ rlKey' = RedisSetexCount(WindowSeconds, 1)
            /\ rlWin' = 1
            /\ plRate' = Allowed(MaxRequests - 1)
            /\ plLog' = Append(plLog, Did("rate_write", TRUE))
            /\ plPc' = "typing"
       ELSE /\ RateError
            /\ UNCHANGED <<rlKey, rlWin>>
    /\ UNCHANGED <<plMsg, plRoute, plMust, plCount, plGen, plExit, plRaisedAt, plTriggered, ppPc,
                   rtState, nonPipeline>>

\* await redis.incr(key); allowed
RateIncr(ok) ==
    /\ plPc = "rate_incr"
    /\ IF ok
       THEN /\ rlKey' = RedisIncr(rlKey)
            /\ rlWin' = rlWin + 1
            /\ plRate' = Allowed(MaxRequests - plCount - 1)
            /\ plLog' = Append(plLog, Did("rate_write", TRUE))
            /\ plPc' = "typing"
       ELSE /\ RateError
            /\ UNCHANGED <<rlKey, rlWin>>
    /\ UNCHANGED <<plMsg, plRoute, plMust, plCount, plGen, plExit, plRaisedAt, plTriggered, ppPc,
                   rtState, nonPipeline>>

\* ttl = await redis.ttl(key); denied with reset_in = max(ttl, 1)
RateTtl(sub, ok) ==
    /\ plPc = "rate_ttl"
    /\ IF ok
       THEN /\ plRate' = Denied(PyMax(RedisTtl(rlKey, sub), 1))
            /\ plLog' = Append(plLog, Did("rate_ttl", TRUE))
            /\ plPc' = "notice"
       ELSE RateError
    /\ UNCHANGED <<plMsg, plRoute, plMust, plCount, plGen, plExit, plRaisedAt, plTriggered, ppPc,
                   rlKey, rlWin, rtState, nonPipeline>>

\* lines 99-101; message.reply is outside the try block
RateNotice(ok) ==
    /\ plPc = "notice"
    /\ plLog' = Append(plLog, Reply("notice", ok, "sabar {reset_in}s", plRate.reset_in))
    /\ plRaisedAt' = IF ok THEN plRaisedAt ELSE "notice"
    /\ Finish(IF ok THEN "returned" ELSE "raised")
    /\ UNCHANGED <<plMsg, plRoute, plRate, plMust, plCount, plGen, plTriggered, ppPc,
                   rlKey, rlWin, rtState, nonPipeline>>

\* line 103: await message.channel.typing(), outside the try block
Typing(ok) ==
    /\ plPc = "typing"
    /\ plLog' = Append(plLog, Did("typing", ok))
    /\ IF ok
       THEN /\ plPc' = "build"
            /\ UNCHANGED <<plExit, plRaisedAt>>
       ELSE /\ plRaisedAt' = "typing"
            /\ Finish("raised")
    /\ UNCHANGED <<plMsg, plRoute, plRate, plMust, plCount, plGen, plTriggered, ppPc,
                   rlKey, rlWin, rtState, nonPipeline>>

\* a step of the try block that produces nothing the model keeps: context
\* build (107), upsert_user (115), persona + system prompt + format (122-144)
TryStep(step, next, ok) ==
    /\ plPc = step
    /\ IF ok
       THEN /\ plLog' = Append(plLog, Did(step, TRUE))
            /\ plPc' = next
            /\ UNCHANGED <<plExit, plRaisedAt>>
       ELSE Caught(step)
    /\ UNCHANGED <<plMsg, plRoute, plRate, plMust, plCount, plGen, plTriggered, ppPc,
                   rlKey, rlWin, rtState, nonPipeline>>

silent_OnlyFlag(gen) == ~gen.should_respond

\* `if not should_respond or not reply_text: return`
silent(gen) == ~gen.should_respond \/ gen.reply_text = ""

\* where the answer came from: a provider, generate_chat's default after both
\* providers, generate_vision's failure, or no image url in the message
GenSources(is_vision) ==
    IF is_vision THEN {"provider", "vision_failed", "no_image_url"}
    ELSE {"provider", "all_providers_down"}

\* lines 147-172: should_respond and reply_text; gen is what the provider
\* answered (for the vision path its content, stripped)
generation(is_vision, source, gen) ==
    IF is_vision
    THEN LET reply_text == IF source = "provider" THEN gen.reply_text
                           ELSE IF source = "vision_failed" THEN VisionUnavailable.text
                           ELSE ""
         IN  [should_respond |-> (source # "no_image_url" /\ reply_text # ""),
              reply_text |-> reply_text]
    ELSE IF source = "all_providers_down"
    THEN [should_respond |-> DefaultChat.ok, reply_text |-> DefaultChat.text]
    ELSE gen

\* lines 147-175: generate_vision or generate_chat, then `if not should_respond
\* or not reply_text: return`
Generate(ok, source, gen) ==
    /\ plPc = "generate"
    /\ source \in GenSources(plRoute.route = "vision")
    /\ IF ok
       THEN /\ plLog' = Append(plLog, [Did("llm", TRUE) EXCEPT !.kind = source])
            /\ plGen' = generation(plRoute.route = "vision", source, gen)
            /\ UNCHANGED plRaisedAt
            /\ IF silent(plGen')
               THEN Finish("returned")
               ELSE plPc' = "send" /\ UNCHANGED plExit
       ELSE /\ plLog' = Append(plLog, Did("llm", FALSE))
            /\ plPc' = "apology"
            /\ plRaisedAt' = "generate"
            /\ UNCHANGED <<plGen, plExit>>
    /\ UNCHANGED <<plMsg, plRoute, plRate, plMust, plCount, plTriggered, ppPc,
                   rlKey, rlWin, rtState, nonPipeline>>

\* lines 178-182: reply, then asyncio.create_task(self._post_process(...))
Send(ok) ==
    /\ plPc = "send"
    /\ LET sent == Append(plLog, Reply("generated", ok, plGen.reply_text, 0))
       IN  IF after_send(ok) = "spawn"
           THEN /\ plLog' = Append(sent, Did("spawn", TRUE))
                /\ ppPc' = "save_user_msg"
                /\ Finish("returned")
                /\ UNCHANGED plRaisedAt
           ELSE /\ plLog' = sent
                /\ plPc' = "apology"
                /\ plRaisedAt' = "send"
                /\ UNCHANGED <<ppPc, plExit>>
    /\ UNCHANGED <<plMsg, plRoute, plRate, plMust, plCount, plGen, plTriggered,
                   rlKey, rlWin, rtState, nonPipeline>>

\* lines 184-189: the error is logged, the apology attempted, its error dropped
Apology(ok) ==
    /\ plPc = "apology"
    /\ plLog' = Append(plLog, Reply("apology", ok, ApologyText, 0))
    /\ Finish("returned")
    /\ UNCHANGED <<plMsg, plRoute, plRate, plMust, plCount, plGen, plRaisedAt, plTriggered, ppPc,
                   rlKey, rlWin, rtState, nonPipeline>>

\* _post_process: embedding and save_conversation of the message (202-214),
\* of the reply (216-228), save_memory (230-234); an error ends the task in
\* the except branch (236-237)
PostProcessStep(step, next, ok) ==
    /\ ppPc = step
    /\ IF ok
       THEN /\ plLog' = Append(plLog, Did(step, TRUE))
            /\ ppPc' = next
       ELSE /\ plLog' = Append(Append(plLog, Did(step, FALSE)), Did("post_process_failed", TRUE))
            /\ ppPc' = "done"
    /\ UNCHANGED <<plMsg, plPc, plRoute, plRate, plMust, plCount, plGen, plExit, plRaisedAt,
                   plTriggered, rlKey, rlWin, rtState, nonPipeline>>

\* time passes for the rate-limit key
RlTick ==
    /\ rlKey # NoCounter /\ rlKey.ttl # NoExpiry
    /\ rlKey' = Elapse(rlKey, NoCounter, RlTickSeconds)
    /\ rlWin' = IF rlKey' = NoCounter THEN 0 ELSE rlWin
    /\ UNCHANGED <<plMsg, plPc, plRoute, plRate, plMust, plCount, plGen, plLog, plExit, plRaisedAt,
                   plTriggered, ppPc, rtState, nonPipeline>>

PipelineNext ==
    \/ \E msg \in Messages : NewMessage(msg)
    \/ TriggerCheck
    \/ Forget
    \/ \E layer \in LayerOutcomes, rnd \in RandomDraws : PlClassify(layer, rnd)
    \/ \E should \in BOOLEAN, ok \in BOOLEAN : QuickReact(should, ok)
    \/ \E ok \in BOOLEAN : CannedReply(ok)
    \/ \E ok \in OkSet : RateGet(ok)
    \/ \E ok \in OkSet : RateSetex(ok)
    \/ \E ok \in OkSet : RateIncr(ok)
    \/ \E sub \in BOOLEAN, ok \in OkSet : RateTtl(sub, ok)
    \/ \E ok \in BOOLEAN : RateNotice(ok)
    \/ \E ok \in BOOLEAN : Typing(ok)
    \/ \E ok \in BOOLEAN : TryStep("build", "upsert", ok)
    \/ \E ok \in BOOLEAN : TryStep("upsert", "prepare", ok)
    \/ \E ok \in BOOLEAN : TryStep("prepare", "generate", ok)
    \/ \E ok \in BOOLEAN, gen \in Generations,
          source \in GenSources(TRUE) \cup GenSources(FALSE) : Generate(ok, source, gen)
    \/ \E ok \in BOOLEAN : Send(ok)
    \/ \E ok \in BOOLEAN : Apology(ok)
    \/ \E ok \in BOOLEAN : PostProcessStep("save_user_msg", "save_bot_msg", ok)
    \/ \E ok \in BOOLEAN : PostProcessStep("save_bot_msg", "save_memory", ok)
    \/ \E ok \in BOOLEAN : PostProcessStep("save_memory", "done", ok)
    \/ RlTick

(***************************************************************************)
(* services/redis_client.py: check_rate_limit, called for one user by     *)
(* handlers that run together; each store command is a step of its own.    *)
(***************************************************************************)
\* a handler calls check_rate_limit
RcBegin(c) ==
    /\ rcPc[c] \in {"idle", "done"}
    /\ rcPc' = [rcPc EXCEPT ![c] = "rate_get"]
    /\ rcCount' = [rcCount EXCEPT ![c] = 0]
    /\ rcRes' = [rcRes EXCEPT ![c] = NoRate]
    /\ UNCHANGED <<rlKey, rlWin, nonRate>>

\* current = await redis.get(key)
RcGet(c) ==
    /\ rcPc[c] = "rate_get"
    /\ rcPc' = [rcPc EXCEPT ![c] = after_rate_get(rlKey, MaxRequests)]
    /\ rcCount' = [rcCount EXCEPT ![c] = IF rlKey = NoCounter THEN 0 ELSE rlKey.n]
    /\ UNCHANGED <<rcRes, rlKey, rlWin, nonRate>>

\* await redis.setex(key, window_seconds, 1)
RcSetex(c) ==
    /\ rcPc[c] = "rate_setex"
    /\ rlKey' = RedisSetexCount(WindowSeconds, 1)
    /\ rlWin' = IF rlKey = NoCounter THEN 1 ELSE rlWin + 1
    /\ rcRes' = [rcRes EXCEPT ![c] = Allowed(MaxRequests - 1)]
    /\ rcPc' = [rcPc EXCEPT ![c] = "done"]
    /\ UNCHANGED <<rcCount, nonRate>>

\* await redis.incr(key)
RcIncr(c) ==
    /\ rcPc[c] = "rate_incr"
    /\ rlKey' = RedisIncr(rlKey)
    /\ rlWin' = rlWin + 1
    /\ rcRes' = [rcRes EXCEPT ![c] = Allowed(MaxRequests - rcCount[c] - 1)]
    /\ rcPc' = [rcPc EXCEPT ![c] = "done"]
    /\ UNCHANGED <<rcCount, nonRate>>

\* ttl = await redis.ttl(key)
RcTtl(c, sub) ==
    /\ rcPc[c] = "rate_ttl"
    /\ rcRes' = [rcRes EXCEPT ![c] = Denied(PyMax(RedisTtl(rlKey, sub), 1))]
    /\ rcPc' = [rcPc EXCEPT ![c] = "done"]
    /\ UNCHANGED <<rcCount, rlKey, rlWin, nonRate>>

RateNext ==
    \/ \E c \in RateCalls : RcBegin(c)
    \/ \E c \in RateCalls : RcGet(c)
    \/ \E c \in RateCalls : RcSetex(c)
    \/ \E c \in RateCalls : RcIncr(c)
    \/ \E c \in RateCalls, sub \in BOOLEAN : RcTtl(c, sub)
    \/ RlTick

(***************************************************************************)
(* core/context_manager.py: ContextManager._trace_reply_chain              *)
(***************************************************************************)
\* reply_chain_depth
ReplyChainDepth == 5
\* reply-to links above the triggering message
MaxChainLen == 6

\* what following one link gives: the parent from reference.cached_message,
\* from fetch_message, an error of fetch_message (deleted, no permission), or
\* a reference without message_id
LinkKinds == {"cached", "fetched", "fetch_fails", "no_message_id"}
LinkSeqs == UNION {[1..n -> LinkKinds] : n \in 0..MaxChainLen}

\* the parent at distance i is named by its distance
Parent(i) == i
MessageFragment(i) == [msg_id |-> Parent(i)]

\* current.reference and current.reference.message_id
has_reference(links, depth) ==
    depth < Len(links) /\ links[depth + 1] # "no_message_id"

loop_condition_NoDepth(links, depth, max_depth) == has_reference(links, depth)

\* the `while` condition
loop_condition(links, depth, max_depth) ==
    has_reference(links, depth) /\ depth < max_depth

\* the try block obtains the parent; any Exception leaves the loop
parent_obtained(link) == link \in {"cached", "fetched"}

TcIdle ==
    /\ tcIn = <<>>
    /\ tcChain = <<>>
    /\ tcDepth = 0
    /\ tcPc = "loop"
    /\ tcRet = <<>>

TcInit ==
    /\ tcIn \in LinkSeqs
    /\ tcChain = <<>>
    /\ tcDepth = 0
    /\ tcPc = "loop"
    /\ tcRet = <<>>

\* one evaluation of the `while` condition and, when it holds, of the body
TraceLoop ==
    /\ tcPc = "loop"
    /\ IF loop_condition(tcIn, tcDepth, ReplyChainDepth)
       THEN IF parent_obtained(tcIn[tcDepth + 1])
            THEN /\ tcChain' = Append(tcChain, MessageFragment(tcDepth + 1))
                 /\ tcDepth' = tcDepth + 1
                 /\ UNCHANGED tcPc
            ELSE /\ tcPc' = "return"
                 /\ UNCHANGED <<tcChain, tcDepth>>
       ELSE /\ tcPc' = "return"
            /\ UNCHANGED <<tcChain, tcDepth>>
    /\ UNCHANGED <<tcIn, tcRet, nonChain>>

\* return chain
TraceReturn ==
    /\ tcPc = "return"
    /\ tcRet' = tcChain
    /\ tcPc' = "done"
    /\ UNCHANGED <<tcIn, tcChain, tcDepth, nonChain>>

ChainNext == TraceLoop \/ TraceReturn

(***************************************************************************)
(* core/context_manager.py: ContextManager._get_channel_history, and       *)
(* services/redis_client.py: get_context, set_context                      *)
(***************************************************************************)
\* history_limit
HistoryLimit == 15
\* ttl_seconds=120
ContextTtl == 120
\* messages posted in the channel
MaxChannelMsgs == 3
\* seconds of one step of the cache clock
ChTickSeconds == 60

\* the cache key when absent; val is the decoded list
NoContext == [present |-> FALSE, val |-> <<>>, ttl |-> 0]

Reversed(seq) == [i \in 1..Len(seq) |-> seq[Len(seq) + 1 - i]]

\* channel.history(limit=n): the newest n messages, newest first
channel_history(channel, limit) ==
    LET newest == Reversed(channel)
    IN  SubSeq(newest, 1, IF Len(newest) < limit THEN Len(newest) ELSE limit)

\* get_context: the decoded list, or None without the key or on an error
get_context(cache, ok) ==
    IF ok /\ cache.present THEN [is_none |-> FALSE, val |-> cache.val]
    ELSE [is_none |-> TRUE, val |-> <<>>]

\* set_context: setex; an error is logged and the key left as it was
set_context(cache, messages, ttl_seconds, ok) ==
    IF ok THEN [present |-> TRUE, val |-> messages, ttl |-> ttl_seconds] ELSE cache

\* `if cached`
cached_truthy(cached) == ~cached.is_none /\ cached.val # <<>>

\* the loop over reversed(messages)
kept_messages(messages, exclude_id) ==
    SelectSeq(Reversed(messages), LAMBDA m : m.id # exclude_id /\ ~m.blank)

\* _get_channel_history: what it returns, whether it called the platform, and
\* the cache key it leaves
get_channel_history(channel, cache, exclude_id, get_ok, fetch_ok, set_ok) ==
    LET cached == get_context(cache, get_ok)
    IN  IF cached_truthy(cached)
        THEN [ret |-> SelectSeq(cached.val, LAMBDA m : m.id # exclude_id),
              called |-> FALSE, cache |-> cache]
        ELSE IF ~fetch_ok
        THEN [ret |-> <<>>, called |-> TRUE, cache |-> cache]
        ELSE LET history == kept_messages(channel_history(channel, HistoryLimit),
                                          exclude_id)
             IN  [ret |-> history, called |-> TRUE,
                  cache |-> set_context(cache, history, ContextTtl, set_ok)]

NoHistoryCall ==
    [made |-> FALSE, exclude_id |-> 0, before |-> NoContext, channel |-> <<>>,
     ok |-> TRUE, called |-> FALSE, ret |-> <<>>]

ChIdle ==
    /\ chChannel = <<>>
    /\ chCache = NoContext
    /\ chCall = NoHistoryCall

\* someone posts in the channel; a message of blanks or of an attachment
\* only has no text
PostMessage(blank) ==
    /\ Len(chChannel) < MaxChannelMsgs
    /\ chChannel' = Append(chChannel, [id |-> Len(chChannel) + 1, blank |-> blank])
    /\ UNCHANGED <<chCache, chCall, nonHistory>>

\* ctx.channel_history = await self._get_channel_history(channel, str(message.id))
GetChannelHistory(exclude_id, get_ok, fetch_ok, set_ok) ==
    /\ exclude_id \in 1..Len(chChannel)
    /\ LET r == get_channel_history(chChannel, chCache, exclude_id, get_ok, fetch_ok,
                                    set_ok)
       IN  /\ chCache' = r.cache
           /\ chCall' = [made |-> TRUE, exclude_id |-> exclude_id, before |-> chCache,
                         channel |-> chChannel, ok |-> get_ok /\ fetch_ok /\ set_ok,
                         called |-> r.called, ret |-> r.ret]
    /\ UNCHANGED <<chChannel, nonHistory>>

\* time passes for the cache key
ChTick ==
    /\ chCache.present
    /\ chCache' = IF chCache.ttl - ChTickSeconds <= 0 THEN NoContext
                  ELSE [chCache EXCEPT !.ttl = @ - ChTickSeconds]
    /\ UNCHANGED <<chChannel, chCall, nonHistory>>

HistoryNext ==
    \/ \E blank \in BOOLEAN : PostMessage(blank)
    \/ \E exclude_id \in 1..MaxChannelMsgs, get_ok \in BOOLEAN, fetch_ok \in BOOLEAN,
          set_ok \in BOOLEAN : GetChannelHistory(exclude_id, get_ok, fetch_ok, set_ok)
    \/ ChTick

(***************************************************************************)
(* cogs/lurker.py: LurkerCog.on_message, and services/redis_client.py:     *)
(* check_lurker_cooldown, set_lurker_cooldown                              *)
(***************************************************************************)
\* cooldown_seconds
CooldownSeconds == 600
\* seconds of one step of the lurker clock
LkTickSeconds == 300
\* handlers of messages of one channel that run together
Lurkers == {"h1", "h2"}

\* check_lurker_cooldown: `not exists`, or False on an error
check_lurker_cooldown(key, ok) == IF ok THEN key = NoKey ELSE FALSE

\* set_lurker_cooldown: setex; an error is logged and the key left as it was
set_lurker_cooldown(key, cooldown_seconds, ok) ==
    IF ok THEN RedisSetex(cooldown_seconds, "1") ELSE key

LkIdle ==
    /\ lkPc = [h \in Lurkers |-> "idle"]
    /\ lkKey = NoKey
    /\ lkSentAges = <<>>

\* lines 77-91: a message that passes the filters and the interest score
LkBegin(h) ==
    /\ lkPc[h] = "idle"
    /\ lkPc' = [lkPc EXCEPT ![h] = "check"]
    /\ UNCHANGED <<lkKey, lkSentAges, nonLurker>>

\* lines 93-103: the cooldown check, then the random draw
LkCheck(h, ok, drawn) ==
    /\ lkPc[h] = "check"
    /\ lkPc' = [lkPc EXCEPT ![h] = IF check_lurker_cooldown(lkKey, ok) /\ drawn
                                   THEN "generate" ELSE "idle"]
    /\ UNCHANGED <<lkKey, lkSentAges, nonLurker>>

\* lines 121-134: generate_text, the empty-reply return, the delay
LkGenerate(h, has_reply) ==
    /\ lkPc[h] = "generate"
    /\ lkPc' = [lkPc EXCEPT ![h] = IF has_reply THEN "send" ELSE "idle"]
    /\ UNCHANGED <<lkKey, lkSentAges, nonLurker>>

\* line 135: await message.channel.send(reply_text); an error ends the
\* handler in the except branch
LkSend(h, ok) ==
    /\ lkPc[h] = "send"
    /\ lkPc' = [lkPc EXCEPT ![h] = IF ok THEN "set" ELSE "idle"]
    /\ lkSentAges' = IF ok THEN Append(lkSentAges, 0) ELSE lkSentAges
    /\ UNCHANGED <<lkKey, nonLurker>>

\* lines 137-141
LkSetCooldown(h, ok) ==
    /\ lkPc[h] = "set"
    /\ lkKey' = set_lurker_cooldown(lkKey, CooldownSeconds, ok)
    /\ lkPc' = [lkPc EXCEPT ![h] = "idle"]
    /\ UNCHANGED <<lkSentAges, nonLurker>>

\* time passes: the key ages, and so do the messages sent
LkTick ==
    /\ lkKey # NoKey \/ lkSentAges # <<>>
    /\ lkKey' = Elapse(lkKey, NoKey, LkTickSeconds)
    /\ lkSentAges' = SelectSeq([i \in 1..Len(lkSentAges) |-> lkSentAges[i] + LkTickSeconds],
                               LAMBDA age : age < CooldownSeconds)
    /\ UNCHANGED <<lkPc, nonLurker>>

LurkerNext ==
    \/ \E h \in Lurkers : LkBegin(h)
    \/ \E h \in Lurkers, ok \in OkSet, drawn \in BOOLEAN : LkCheck(h, ok, drawn)
    \/ \E h \in Lurkers, has_reply \in BOOLEAN : LkGenerate(h, has_reply)
    \/ \E h \in Lurkers, ok \in BOOLEAN : LkSend(h, ok)
    \/ \E h \in Lurkers, ok \in OkSet : LkSetCooldown(h, ok)
    \/ LkTick

(***************************************************************************)
(* Initial states                                                          *)
(***************************************************************************)
\* the components a specification does not exercise, at rest
MoreIdle == TcIdle /\ ChIdle /\ LkIdle
OtherIdle == RouterNew /\ RtIdle /\ UsIdle /\ PlIdle /\ MoreIdle

StoreInit(fl) ==
    /\ cbState = [p \in Providers |-> NoKey]
    /\ cbFailures = [p \in Providers |-> NoCounter]
    /\ faults = fl

CallInit ==
    /\ pc = [c \in Calls |-> "idle"]
    /\ op = [c \in Calls |-> "chat"]
    /\ prov = [c \in Calls |-> "groq"]
    /\ attempt = [c \in Calls |-> 1]
    /\ result = [c \in Calls |-> NoResult]
    /\ log = [c \in Calls |-> NoLog]

HistInit(ws) ==
    /\ watched \in ws
    /\ run = 0
    /\ openedAge = -1
    /\ succBelow = FALSE
    /\ lrun = 0
    /\ lrunAge = 0
    /\ lopenedAge = -1
    /\ inLife = FALSE
    /\ sinceFail = -1

(***************************************************************************)
(* Gateway actions                                                         *)
(***************************************************************************)
\* the request to provider p leaves: remember whether p's persisted state was open
Issued(lg, p) ==
    [lg EXCEPT !.issued = @ \cup {p},
               !.issuedOpen = IF cbState[p].val = "open" THEN @ \cup {p} ELSE @]

first_provider_Secondary(o) == "openrouter"

\* the provider a call turns to first: groq, and openrouter for vision
first_provider(o) == IF o = "vision" THEN "openrouter" ELSE "groq"

\* generate_chat / generate_text / generate_vision is called
Begin(c, o) ==
    /\ UNCHANGED nonGateway
    /\ pc[c] = "idle"
    /\ op' = [op EXCEPT ![c] = o]
    /\ attempt' = [attempt EXCEPT ![c] = 1]
    /\ result' = [result EXCEPT ![c] = NoResult]
    /\ IF o = "vision"
       THEN /\ pc' = [pc EXCEPT ![c] = "request"]
            /\ prov' = [prov EXCEPT ![c] = first_provider(o)]
            /\ log' = [log EXCEPT ![c] = Issued(log[c], first_provider(o))]
       ELSE /\ pc' = [pc EXCEPT ![c] = "check"]
            /\ prov' = [prov EXCEPT ![c] = first_provider(o)]
            /\ log' = log
    /\ UNCHANGED <<cbState, cbFailures, faults>>
    /\ UNCHANGED histVars

\* after provider p was skipped or failed: the next provider, or the default result
MoveOn(c, lg) ==
    IF prov[c] = "groq"
    THEN /\ pc' = [pc EXCEPT ![c] = "check"]
         /\ prov' = [prov EXCEPT ![c] = "openrouter"]
         /\ result' = result
         /\ log' = [log EXCEPT ![c] = lg]
    ELSE /\ pc' = [pc EXCEPT ![c] = "done"]
         /\ prov' = prov
         /\ result' = [result EXCEPT ![c] = IF op[c] = "chat" THEN DefaultChat ELSE AllDown]
         /\ log' = [log EXCEPT ![c] = lg]

\* `if not await self._is_circuit_open(p):` and, when closed, the request leaves
CheckCircuit(c) ==
    /\ UNCHANGED nonGateway
    /\ pc[c] = "check"
    /\ \E ok \in OkSet :
         LET p == prov[c]
             state == get_circuit_state(cbState[p], ok)
             lg == [log[c] EXCEPT !.readOpen = IF state = "open" THEN @ \cup {p} ELSE @]
         IN  IF is_circuit_open(state)
             THEN MoveOn(c, lg)
             ELSE /\ pc' = [pc EXCEPT ![c] = "request"]
                  /\ log' = [log EXCEPT ![c] = Issued(lg, p)]
                  /\ UNCHANGED <<prov, result>>
    /\ UNCHANGED <<cbState, cbFailures, faults, op, attempt>>
    /\ UNCHANGED histVars

\* the request of a chat or text call returns; the breaker is updated
CompleteText(c, outcome) ==
    /\ UNCHANGED nonGateway
    /\ pc[c] = "request"
    /\ op[c] \in {"chat", "text"}
    /\ LET p == prov[c]
           r == IF op[c] = "chat" THEN try_instructor(outcome)
                ELSE IF client_call(outcome) THEN "result" ELSE "None"
       IN  \E f \in [1..3 -> OkSet], respond \in BOOLEAN :
             IF r = "raise"
             THEN /\ pc' = [pc EXCEPT ![c] = "raised"]
                  /\ UNCHANGED <<cbState, cbFailures, prov, result, log>>
                  /\ UNCHANGED histVars
             ELSE IF r = "result"
             THEN LET s == record_success(cbState[p], cbFailures[p], f)
                  IN  /\ op[c] = "text" => respond
                      /\ cbState' = [cbState EXCEPT ![p] = s.st]
                      /\ cbFailures' = [cbFailures EXCEPT ![p] = s.fl]
                      /\ pc' = [pc EXCEPT ![c] = "done"]
                      /\ result' = [result EXCEPT ![c] =
                                      IF op[c] = "chat" THEN ProviderChat(p, respond)
                                      ELSE ProviderLLM(p)]
                      /\ log' = [log EXCEPT ![c].okFrom = @ \cup {p},
                                            ![c].recorded = @ \cup {p}]
                      /\ prov' = prov
             ELSE LET s == record_failure(cbState[p], cbFailures[p], f)
                  IN  /\ respond
                      /\ cbFailures[p].n < MaxCount
                      /\ cbState' = [cbState EXCEPT ![p] = s.st]
                      /\ cbFailures' = [cbFailures EXCEPT ![p] = s.fl]
                      /\ MoveOn(c, [log[c] EXCEPT !.recorded = @ \cup {p}])
    /\ UNCHANGED <<faults, op, attempt, histVars>>

\* a request of generate_vision returns: the fallback model is tried once, and the
\* breaker is neither read nor updated
CompleteVision(c, outcome) ==
    /\ UNCHANGED nonGateway
    /\ pc[c] = "request"
    /\ op[c] = "vision"
    /\ IF client_call(outcome)
       THEN /\ pc' = [pc EXCEPT ![c] = "done"]
            /\ result' = [result EXCEPT ![c] = ProviderLLM("openrouter")]
            /\ log' = [log EXCEPT ![c].okFrom = @ \cup {"openrouter"}]
            /\ attempt' = attempt
       ELSE IF attempt[c] = 1
       THEN /\ attempt' = [attempt EXCEPT ![c] = 2]
            /\ log' = [log EXCEPT ![c] = Issued(log[c], "openrouter")]
            /\ UNCHANGED <<pc, result>>
       ELSE /\ pc' = [pc EXCEPT ![c] = "done"]
            /\ result' = [result EXCEPT ![c] = VisionUnavailable]
            /\ UNCHANGED <<log, attempt>>
    /\ UNCHANGED <<cbState, cbFailures, faults, op, prov>>
    /\ UNCHANGED histVars

\* the caller has the result; the call slot is free again
Return(c) ==
    /\ UNCHANGED nonGateway
    /\ pc[c] = "done"
    /\ pc' = [pc EXCEPT ![c] = "idle"]
    /\ log' = [log EXCEPT ![c] = NoLog]
    /\ result' = [result EXCEPT ![c] = NoResult]
    /\ prov' = [prov EXCEPT ![c] = "groq"]
    /\ op' = [op EXCEPT ![c] = "chat"]
    /\ attempt' = [attempt EXCEPT ![c] = 1]
    /\ UNCHANGED <<cbState, cbFailures, faults>>
    /\ UNCHANGED histVars

\* d seconds pass: keys lose that much of their expiry
KeysAge(d) ==
    /\ cbState' = [p \in Providers |-> Elapse(cbState[p], NoKey, d)]
    /\ cbFailures' = [p \in Providers |-> Elapse(cbFailures[p], NoCounter, d)]
    /\ faults' = faults

Tick ==
    /\ UNCHANGED nonGateway
    /\ KeysAge(TickSeconds)
    /\ UNCHANGED <<callVars, histVars>>

GwNext ==
    \/ \E c \in Calls, o \in {"chat", "text", "vision"} : Begin(c, o)
    \/ \E c \in Calls : CheckCircuit(c)
    \/ \E c \in Calls, outcome \in Outcomes : CompleteText(c, outcome)
    \/ \E c \in Calls, outcome \in Outcomes : CompleteVision(c, outcome)
    \/ \E c \in Calls : Return(c)
    \/ Tick

(***************************************************************************)
(* The breaker on its own: _record_failure, _record_success and time, in   *)
(* any order, on either provider; the history of `watched` is kept.        *)
(***************************************************************************)
AllOk == [i \in 1..3 |-> TRUE]

\* what _is_circuit_open(p) returns in this state
IsOpenNow(p) == is_circuit_open(get_circuit_state(cbState[p], TRUE))

Age(a, cap) ==
    IF a < 0 THEN a
    ELSE IF a + BreakerTickSeconds >= cap THEN cap ELSE a + BreakerTickSeconds

HistFailure ==
    LET fresh == cbFailures[watched].n = 0 /\ ~IsOpenNow(watched)
        l == IF fresh THEN 1 ELSE IF lrun < FailMax THEN lrun + 1 ELSE lrun
        hit == l = FailMax /\ (fresh \/ lrun < FailMax)
    IN  /\ run' = IF run < FailMax THEN run + 1 ELSE run
        /\ openedAge' = IF run = FailMax - 1 THEN 0 ELSE openedAge
        /\ lrun' = l
        /\ lrunAge' = IF fresh THEN 0 ELSE lrunAge
        /\ lopenedAge' = IF hit THEN 0 ELSE lopenedAge
        /\ inLife' = IF hit THEN (fresh \/ lrunAge < FailureCounterTtl) ELSE inLife
        /\ sinceFail' = 0
        /\ UNCHANGED <<watched, succBelow>>

HistSuccess ==
    /\ succBelow' = (run > 0 /\ run < FailMax)
    /\ run' = 0
    /\ lrun' = 0
    /\ lrunAge' = 0
    /\ openedAge' = -1
    /\ lopenedAge' = -1
    /\ UNCHANGED <<watched, inLife, sinceFail>>

\* await self._record_failure(p)
BrRecordFailure(p) ==
    /\ UNCHANGED nonGateway
    /\ cbFailures[p].n < MaxCount
    /\ LET s == record_failure(cbState[p], cbFailures[p], AllOk)
       IN  /\ cbState' = [cbState EXCEPT ![p] = s.st]
           /\ cbFailures' = [cbFailures EXCEPT ![p] = s.fl]
    /\ IF p = watched THEN HistFailure ELSE UNCHANGED histVars
    /\ UNCHANGED <<faults, callVars>>

\* await self._record_success(p)
BrRecordSuccess(p) ==
    /\ UNCHANGED nonGateway
    /\ LET s == record_success(cbState[p], cbFailures[p], AllOk)
       IN  /\ cbState' = [cbState EXCEPT ![p] = s.st]
           /\ cbFailures' = [cbFailures EXCEPT ![p] = s.fl]
    /\ IF p = watched THEN HistSuccess ELSE UNCHANGED histVars
    /\ UNCHANGED <<faults, callVars>>

BrTick ==
    /\ UNCHANGED nonGateway
    /\ KeysAge(BreakerTickSeconds)
    /\ openedAge' = Age(openedAge, ResetTimeout)
    /\ lopenedAge' = Age(lopenedAge, ResetTimeout)
    /\ lrunAge' = IF lrun = 0 THEN 0 ELSE Age(lrunAge, FailureCounterTtl)
    /\ sinceFail' = Age(sinceFail, ResetTimeout)
    /\ UNCHANGED <<watched, run, succBelow, lrun, inLife, callVars>>

BreakerNext ==
    \/ \E p \in Providers : BrRecordFailure(p)
    \/ \E p \in Providers : BrRecordSuccess(p)
    \/ BrTick

BreakerInit == StoreInit(FALSE) /\ CallInit /\ HistInit(Providers) /\ FmtIdle /\ BldIdle /\ PerIdle /\ OtherIdle
SpecBreaker == BreakerInit /\ [][BreakerNext]_vars

Init == StoreInit(FALSE) /\ CallInit /\ HistInit({"groq"}) /\ FmtIdle /\ BldIdle /\ PerIdle /\ OtherIdle
Next == GwNext
Spec == Init /\ [][Next]_vars

\* generate_chat calls, one at a time, over a store whose commands may fail
FaultsNext ==
    \/ Begin("c1", "chat")
    \/ CheckCircuit("c1")
    \/ \E outcome \in Outcomes : CompleteText("c1", outcome)
    \/ Return("c1")
    \/ Tick

InitFaults == StoreInit(TRUE) /\ CallInit /\ HistInit({"groq"}) /\ FmtIdle /\ BldIdle /\ PerIdle /\ OtherIdle
SpecFaults == InitFaults /\ [][FaultsNext]_vars

FormatInit == StoreInit(FALSE) /\ CallInit /\ HistInit({"groq"}) /\ FmtInit /\ BldIdle /\ PerIdle /\ OtherIdle
SpecFormat == FormatInit /\ [][FormatNext]_vars

BuildInit == StoreInit(FALSE) /\ CallInit /\ HistInit({"groq"}) /\ FmtIdle /\ BldInit /\ PerIdle /\ OtherIdle
SpecBuild == BuildInit /\ [][BuildNext]_vars

PersonaInit == StoreInit(FALSE) /\ CallInit /\ HistInit({"groq"}) /\ FmtIdle /\ BldIdle /\ PerIdle /\ OtherIdle
SpecPersona == PersonaInit /\ [][PersonaNext]_vars
SpecPersonaRace == PersonaInit /\ [][PersonaRaceNext]_vars

RouterInit ==
    /\ StoreInit(FALSE) /\ CallInit /\ HistInit({"groq"}) /\ FmtIdle /\ BldIdle /\ PerIdle
    /\ RouterNew /\ RtIdle /\ UsIdle /\ PlIdle /\ MoreIdle
SpecRouter == RouterInit /\ [][RouterNext]_vars

UsersInit ==
    /\ StoreInit(FALSE) /\ CallInit /\ HistInit({"groq"}) /\ FmtIdle /\ BldIdle /\ PerIdle
    /\ RouterNew /\ RtIdle /\ UsIdle /\ PlIdle /\ MoreIdle
SpecUsers == UsersInit /\ [][UsersNext]_vars
SpecLanguage == UsersInit /\ [][LanguageNext]_vars

PipelineInit ==
    /\ StoreInit(FALSE) /\ CallInit /\ HistInit({"groq"}) /\ FmtIdle /\ BldIdle /\ PerIdle
    /\ RouterStarted /\ RtIdle /\ UsIdle /\ PlIdle /\ MoreIdle
SpecPipeline == PipelineInit /\ [][PipelineNext]_vars

\* the same handler over a store whose commands may fail
PipelineFaultsInit ==
    /\ StoreInit(TRUE) /\ CallInit /\ HistInit({"groq"}) /\ FmtIdle /\ BldIdle /\ PerIdle
    /\ RouterStarted /\ RtIdle /\ UsIdle /\ PlIdle /\ MoreIdle
SpecPipelineFaults == PipelineFaultsInit /\ [][PipelineNext]_vars

SpecRate == PipelineInit /\ [][RateNext]_vars

ChainInit ==
    /\ StoreInit(FALSE) /\ CallInit /\ HistInit({"groq"}) /\ FmtIdle /\ BldIdle /\ PerIdle
    /\ RouterNew /\ RtIdle /\ UsIdle /\ PlIdle
    /\ TcInit /\ ChIdle /\ LkIdle
SpecChain == ChainInit /\ [][ChainNext]_vars /\ WF_vars(ChainNext)

SpecHistory == Init /\ [][HistoryNext]_vars

SpecLurker == Init /\ [][LurkerNext]_vars

(***************************************************************************)
(* Circuit breaker claims                                                  *)
(***************************************************************************)

\* C1 (as stated): once fail_max consecutive _record_failure(p) calls were made
\* from an empty counter and a closed circuit, with no _record_success(p), every
\* _is_circuit_open(p) check returns true until reset_timeout_seconds have
\* passed since the fail_max-th failure.
C1_OpenAfterFailMaxFailures ==
    (openedAge >= 0 /\ openedAge < ResetTimeout) => IsOpenNow(watched)

\* C1 (amended): the same, for fail_max consecutive failures that all fall within
\* the 120 s lifetime of the failure counter, which starts at the first of them.
C1_OpenAfterFailMaxWithinLifetime ==
    (lopenedAge >= 0 /\ lopenedAge < ResetTimeout /\ inLife) => IsOpenNow(watched)

\* time has passed inside the open window and the circuit still reads open
C1_Witness ==
    /\ lopenedAge > 0 /\ lopenedAge < ResetTimeout /\ inLife
    /\ run = FailMax
    /\ IsOpenNow(watched)

\* C2: after a _record_success(p) that came after fewer than fail_max failures
\* the counter of p is zero and counts only the failures recorded since, and the
\* circuit of p is not open before fail_max further failures were recorded.
C2_SuccessResetsCounter ==
    (succBelow /\ run < FailMax) =>
        /\ cbFailures[watched].n <= run
        /\ ~IsOpenNow(watched)

\* a success after 1..fail_max-1 failures, then fail_max further failures: open
C2_Witness ==
    /\ succBelow /\ run = FailMax
    /\ cbFailures[watched].n = FailMax
    /\ IsOpenNow(watched)

(***************************************************************************)
(* Gateway claims                                                          *)
(***************************************************************************)

\* C3: a generate_chat call that read both circuits open returns the
\* do-not-reply default, issued no request and recorded nothing in a breaker.
C3_BothOpenNoRequest ==
    \A c \in Calls :
        (pc[c] = "done" /\ op[c] = "chat" /\ log[c].readOpen = Providers) =>
            /\ result[c] = DefaultChat
            /\ log[c].issued = {}
            /\ log[c].recorded = {}

C3_Witness ==
    \E c \in Calls :
        /\ pc[c] = "done" /\ op[c] = "chat" /\ log[c].readOpen = Providers
        /\ \A p \in Providers : cbFailures[p].n >= FailMax

\* C4: generate_chat never raises, whatever the providers and the store do; it
\* returns a ChatResponse, the do-not-reply default when no provider succeeded.
C4_ChatNeverRaises ==
    \A c \in Calls :
        /\ pc[c] # "raised"
        /\ (pc[c] = "done" /\ op[c] = "chat") =>
               /\ result[c].kind = "chat"
               /\ log[c].okFrom = {} => result[c] = DefaultChat

\* both requests failed, one of them sent although the circuit was open (its
\* state could not be read), and the call still returned the default
C4_Witness ==
    \E c \in Calls :
        /\ pc[c] = "done" /\ op[c] = "chat"
        /\ log[c].issued = Providers /\ log[c].okFrom = {}
        /\ log[c].issuedOpen # {}
        /\ result[c] = DefaultChat

\* C5: no gateway operation issues a request to a provider whose persisted
\* circuit state is open at that moment.
C5_NoRequestWhileOpen ==
    \A c \in Calls : log[c].issuedOpen = {}

(***************************************************************************)
(* Context rendering claims                                                *)
(***************************************************************************)
EmittedFull(label, tokens) ==
    \E i \in 1..Len(fmtOut) :
        fmtOut[i].label = label /\ fmtOut[i].full /\ fmtOut[i].tokens = tokens

TokensIn(label) ==
    CASE label = "[MEMORIES]" -> fmtIn.mem
      [] label = "[SEMANTIC RECALL]" -> fmtIn.sem
      [] label = "[REPLY CONTEXT]" -> fmtIn.chain
      [] label = "[RECENT CHAT]" -> fmtIn.hist
      [] label = "[CURRENT]" -> fmtIn.cur

\* C6: format emits the CURRENT block, and the REPLY CONTEXT block when there is
\* a reply chain, in full, whatever the budget and the other sections are.
C6_NeverTrimInFull ==
    fmtPhase = "done" =>
        \A label \in NeverTrim :
            TokensIn(label) > 0 => EmittedFull(label, TokensIn(label))

\* the two never-trim blocks alone exceed the budget, next to trimmable sections
C6_Witness ==
    /\ fmtPhase = "done"
    /\ fmtIn.chain > 0
    /\ fmtIn.chain + fmtIn.cur > fmtIn.budget
    /\ fmtIn.cur > fmtIn.budget
    /\ fmtIn.sem > 0 /\ fmtIn.hist > 0
    /\ Len(fmtOut) = 2

\* count_tokens of the blocks format emitted, added up
RECURSIVE EmittedTokens(_, _)
EmittedTokens(parts, drift) ==
    IF parts = <<>> THEN 0
    ELSE Recount(Head(parts), drift) + EmittedTokens(Tail(parts), drift)

\* C37: if the never-trim blocks together fit within token_budget, the sum of
\* the token counts of all blocks emitted by format does not exceed
\* token_budget, and no trimmable block is emitted truncated to 50 tokens or
\* fewer (it is dropped instead).
C37_EmittedWithinBudget ==
    (fmtPhase = "done" /\ fmtIn.chain + fmtIn.cur <= fmtIn.budget) =>
        /\ EmittedTokens(fmtOut, fmtIn.drift) <= fmtIn.budget
        /\ \A i \in 1..Len(fmtOut) :
              ~fmtOut[i].full => Recount(fmtOut[i], fmtIn.drift) > MinRemaining

\* C7: whenever a present trimmable section is not emitted in full, no present
\* trimmable section of lower priority is emitted in full.
C7_TrimInPriorityOrder ==
    fmtPhase = "done" =>
        \A x \in Trimmable, y \in Trimmable :
            (/\ TokensIn(x) > 0 /\ TokensIn(y) > 0
             /\ Priority(y) < Priority(x)
             /\ ~EmittedFull(x, TokensIn(x)))
            => ~EmittedFull(y, TokensIn(y))

(***************************************************************************)
(* Context assembly claims                                                 *)
(***************************************************************************)

\* C8: after build, no item of semantic_results comes from a message whose
\* identifier is that of a fragment of the reply chain or of the channel
\* history, or of the triggering message.
C8_SemanticDeduplicated ==
    bldPhase = "done" =>
        \A i \in 1..Len(bldCtx.semantic_results) :
            bldCtx.semantic_results[i].row_message_id
                \notin SeenIds(bldCtx.channel_history, bldCtx.reply_chain, TriggerId)

(***************************************************************************)
(* Persona claims                                                          *)
(***************************************************************************)
HasOverride == perUser # NoRow /\ perUser.preset # None

\* C9: get_effective_persona returns the user's preset, source user, whenever a
\* user override with a non-null preset exists; without one it returns the
\* preset stored for the server, source server.
C9_UserOverrideWins ==
    perEff # NoEff =>
        /\ HasOverride => (perEff.source = "user" /\ perEff.preset = perUser.preset)
        /\ (~HasOverride /\ perServer # NoRow) =>
               (perEff.source = "server" /\ perEff.preset = perServer.preset)

\* a user override next to a different server default
C9_Witness ==
    /\ perEff # NoEff
    /\ HasOverride /\ perServer # NoRow
    /\ perEff.preset = perUser.preset
    /\ perServer.preset # perUser.preset

Classified == rtOut # NoRoute

\* C11: classify with has_image = true returns route vision with confidence
\* 1.0 and no canned reply, for every text and whether or not the classifier
\* is initialized.
C11_ImageAlwaysVision ==
    (Classified /\ rtIn.has_image) =>
        /\ rtOut.route = "vision"
        /\ rtOut.confidence = FullConfidence
        /\ rtOut.chitchat_response = None

\* an image next to a non-empty text, classifier ready
C11_Witness ==
    /\ Classified /\ rtIn.has_image /\ rtIn.ready
    /\ ~StrEmpty(StrStrip(rtIn.content))
    /\ rtOut.route = "vision"

\* C12: a text whose trimmed, lower-cased form is longer than 500 characters,
\* with no image, is classified llm_required and the similarity layer is not
\* invoked.
C12_LongTextSkipsLayer ==
    (Classified /\ ~rtIn.has_image
       /\ TextLen(StrLower(StrStrip(rtIn.content))) > MaxCleanLen) =>
        /\ rtOut.route = "llm_required"
        /\ ~rtOut.layer_called

\* a 501-character text, classifier ready
C12_Witness ==
    /\ Classified /\ ~rtIn.has_image /\ rtIn.ready
    /\ TextLen(StrLower(StrStrip(rtIn.content))) = MaxCleanLen + 1
    /\ rtOut.route = "llm_required"

\* C13: while the classifier is not initialized, classify with no image
\* returns llm_required with confidence 0 for every text, empty text included.
C13_NotReadyFailsOpen ==
    (Classified /\ ~rtIn.ready /\ ~rtIn.has_image) =>
        /\ rtOut.route = "llm_required"
        /\ rtOut.confidence = 0
        /\ rtOut.chitchat_response = None

\* initialize failed after the encoder loaded; the text is empty
C13_Witness ==
    /\ Classified /\ ~rtIn.ready /\ ~rtIn.has_image
    /\ rtEncoder /\ ~rtReady
    /\ StrEmpty(StrStrip(rtIn.content))
    /\ rtOut.route = "llm_required"

\* a keyword occurs in the text: a one-word keyword as a word of it, a
\* keyword of several words as a run of its characters
KeywordOccurs(content, keywords) ==
    \E kw \in keywords :
        IF Len(kw) = 1 THEN kw \in SplitWords(content) ELSE StrContains(content, kw)

\* the first intent, in the order of the claim, with a keyword in the text
FirstIntentInOrder(content) ==
    IF KeywordOccurs(content, MORNING_KEYWORDS) THEN "greeting_morning"
    ELSE IF KeywordOccurs(content, NIGHT_KEYWORDS) THEN "greeting_night"
    ELSE IF KeywordOccurs(content, THANKS_KEYWORDS) THEN "thanks"
    ELSE IF KeywordOccurs(content, BYE_KEYWORDS) THEN "bye"
    ELSE IF KeywordOccurs(content, WHATS_UP_KEYWORDS) THEN "whats_up"
    ELSE IF KeywordOccurs(content, HOW_ARE_YOU_KEYWORDS) THEN "how_are_you"
    ELSE "greeting"

\* C34: for chitchat-routed text, the canned reply is drawn from the pool of
\* the first intent, in the order morning greeting, night greeting, thanks,
\* farewell, what's-up, how-are-you, generic greeting, one of whose keywords
\* occurs in the text (including multi-word keywords such as "terima kasih",
\* "see you", "see ya"); if no keyword occurs it is drawn from the generic
\* greeting pool.
C34_ReplyFromFirstIntentPool ==
    (Classified /\ rtOut.route = "chitchat") =>
        LET pool == CHITCHAT_RESPONSES[FirstIntentInOrder(
                        StrLower(StrStrip(rtIn.content)))]
        IN  \E k \in DOMAIN pool : rtOut.chitchat_response = pool[k]

\* C35: with the gate ready, has_image=false and text non-empty and at most
\* 500 characters, if the similarity layer reports no matching set or raises,
\* classify returns llm_required with confidence 0 and no canned reply; it
\* never returns ignore or chitchat for an unmatched message.  The text is
\* taken as classify cleans it (stripped).
C35_UnmatchedGoesToLlm ==
    (/\ Classified /\ rtIn.ready /\ ~rtIn.has_image
     /\ ~StrEmpty(StrStrip(rtIn.content))
     /\ TextLen(StrLower(StrStrip(rtIn.content))) <= MaxCleanLen
     /\ (rtIn.layer.raises \/ rtIn.layer.name = None)) =>
        /\ rtOut.route = "llm_required"
        /\ rtOut.confidence = 0
        /\ rtOut.chitchat_response = None

\* the layer answered a greeting without naming a set
C35_Witness ==
    /\ Classified /\ rtIn.ready /\ ~rtIn.has_image
    /\ rtIn.content.words = <<<<"hello">>>>
    /\ ~rtIn.layer.raises /\ rtIn.layer.name = None
    /\ rtOut.route = "llm_required" /\ rtOut.layer_called

(***************************************************************************)
(* User store claims                                                       *)
(***************************************************************************)

\* C14: for a user that already has a profile, upsert_user followed by
\* get_user returns a profile whose interaction_count is one more than before
\* the upsert and whose display_name is the one passed to upsert_user.
C14_UpsertThenGet ==
    (usTrip.stage = "read" /\ usTrip.before # NoRow) =>
        /\ usRet # NoRow
        /\ usRet.interaction_count = usTrip.before.interaction_count + 1
        /\ usRet.display_name = usTrip.display_name

\* the round trip renamed a user that had interactions
C14_Witness ==
    /\ usTrip.stage = "read" /\ usTrip.before # NoRow
    /\ usTrip.before.interaction_count > 0
    /\ usTrip.before.display_name # usTrip.display_name
    /\ usRet.display_name = usTrip.display_name

\* the text carries no character of a detected script and fewer than two
\* Indonesian markers
NoLanguageDetected(text) ==
    /\ LangWordSet(text) \cap (Kana \cup Han \cup Hangul) = {}
    /\ Cardinality(LangWordSet(text) \cap INDONESIAN_MARKERS) < 2

\* C31: the language used for the system prompt and stored by upsert_user is
\* the message-detected language when one is detected, otherwise the user's
\* stored preferred language, otherwise "en": a message in which no language
\* is detected resolves to the stored preference of a user who has one.
C31_UndetectedKeepsPreference ==
    (usTrip.stage = "handled" /\ usTrip.before # NoRow
        /\ NoLanguageDetected(usTrip.content)) =>
        /\ usTrip.language = usTrip.before.preferred_lang
        /\ usRow.preferred_lang = usTrip.before.preferred_lang

(***************************************************************************)
(* Message pipeline claims                                                 *)
(***************************************************************************)
Routed == plRoute # NoRoute
LogHas(what) == \E i \in 1..Len(plLog) : plLog[i].op = what
LogCount(what) == Cardinality({i \in 1..Len(plLog) : plLog[i].op = what})
RepliesOf(kind) == {i \in 1..Len(plLog) : plLog[i].op = "reply" /\ plLog[i].kind = kind}
\* the text classify works on
Cleaned == StrLower(CleanContent(plMsg))

\* C15: when classify returns ignore, the pipeline sends no reply and performs
\* no rate-limit check, context build, profile upsert, LLM call or
\* persistence; at most one emoji reaction is added.
C15_IgnoreDoesNothing ==
    (Routed /\ plRoute.route = "ignore") =>
        /\ Len(plLog) <= 1
        /\ \A i \in 1..Len(plLog) : plLog[i].op = "reaction"
        /\ ppPc = "none"
        /\ plPc \in {"react", "done"}
        /\ plExit # "raised"

\* an ignored message that drew a reaction
C15_Witness ==
    /\ Routed /\ plRoute.route = "ignore"
    /\ plPc = "done" /\ LogHas("reaction")

\* C16: for chitchat-routed text that contains a morning keyword
\* the canned reply is a member of the morning-greeting pool.
C16_MorningKeywordInText ==
    (Routed /\ plRoute.route = "chitchat" /\ phrase_match(Cleaned, MORNING_KEYWORDS)) =>
        \E k \in DOMAIN CHITCHAT_RESPONSES.greeting_morning :
            plRoute.chitchat_response = CHITCHAT_RESPONSES.greeting_morning[k]

\* C17: within one window, after max_requests allowed calls for a user, the
\* next check_rate_limit is denied with reset_in >= 1; the pipeline then
\* replies with a notice carrying reset_in and makes no context build, profile
\* upsert, LLM call or persistence, and the denied call writes no counter.
C17_DeniedAfterMaxRequests ==
    (plMust /\ plPc \notin {"rate_get", "rate_setex", "rate_incr", "rate_ttl"}) =>
        /\ plRate # NoRate
        /\ ~plRate.allowed
        /\ plRate.reset_in >= 1
        /\ \A i \in 1..Len(plLog) :
              \/ plLog[i].op \in {"rate_get", "rate_ttl"}
              \/ /\ plLog[i].op = "reply" /\ plLog[i].kind = "notice"
                 /\ plLog[i].reset_in = plRate.reset_in
        /\ plPc = "done" => Cardinality(RepliesOf("notice")) = 1
        /\ ppPc = "none"

\* the third message of a window, refused with a notice
C17_Witness ==
    /\ plMust /\ plPc = "done"
    /\ rlKey # NoCounter /\ rlKey.n = MaxRequests
    /\ \E i \in RepliesOf("notice") : plLog[i].ok

\* C18: any exception raised in the per-message pipeline after the trigger
\* check is caught: no exception escapes on_message and the fixed apology
\* reply is attempted.
C18_NoExceptionEscapes ==
    /\ plExit # "raised"
    /\ (plPc = "done" /\ plRaisedAt # "none") =>
          \E i \in RepliesOf("apology") : plLog[i].text = ApologyText

\* C19: on_message proceeds past the trigger check only if the author is not a
\* bot, the message comes from the allowed server (a message with no server is
\* not processed), the channel is not ignored, and the bot is mentioned or the
\* message replies to a message of the bot.
C19_TriggerOnlyInAllowedServer ==
    plTriggered =>
        /\ ~plMsg.author_bot
        /\ plMsg.guild = "allowed"
        /\ ~plMsg.ignored_channel
        /\ (plMsg.mentioned \/ plMsg.reference = "bot")

\* C20: _post_process is spawned only after the generated reply has been sent
\* successfully; a failure inside it is caught and logged, causes no further
\* message to the chat, and is not retried.
C20_PostProcessAfterReply ==
    /\ \A i \in 1..Len(plLog) :
          plLog[i].op = "spawn" =>
              /\ i > 1
              /\ plLog[i - 1].op = "reply" /\ plLog[i - 1].kind = "generated"
              /\ plLog[i - 1].ok
              /\ \A j \in (i + 1)..Len(plLog) : plLog[j].op # "reply"
    /\ (ppPc # "none") = LogHas("spawn")
    /\ \A what \in {"spawn", "save_user_msg", "save_bot_msg", "save_memory"} :
          LogCount(what) <= 1
    /\ \A i \in 1..Len(plLog) :
          (plLog[i].op \in {"save_user_msg", "save_bot_msg", "save_memory"}) =>
              /\ LogHas("spawn")
              /\ ~plLog[i].ok =>
                    /\ i + 1 = Len(plLog)
                    /\ plLog[i + 1].op = "post_process_failed"
                    /\ ppPc = "done"
                    /\ plExit = "returned"

\* the task failed while saving the reply, after the message was saved
C20_Witness ==
    /\ ppPc = "done"
    /\ \E i \in 1..Len(plLog) : plLog[i].op = "save_bot_msg" /\ ~plLog[i].ok
    /\ plLog[Len(plLog)].op = "post_process_failed"

(***************************************************************************)
(* Recall order, failure accounting and provider order                     *)
(***************************************************************************)

\* C30: after build, semantic_results is ordered by the original timestamp of
\* the recalled messages, ascending, and not by similarity rank.
C30_SemanticChronological ==
    bldPhase = "done" =>
        \A i \in 1..Len(bldCtx.semantic_results), j \in 1..Len(bldCtx.semantic_results) :
            i < j => bldCtx.semantic_results[i].created_at
                         <= bldCtx.semantic_results[j].created_at

\* C23: every provider request that times out or fails, in generate_chat,
\* generate_text or generate_vision, is recorded as a failure toward that
\* provider's circuit breaker.
C23_EveryFailureRecorded ==
    \A c \in Calls :
        pc[c] = "done" =>
            \A p \in log[c].issued : p \notin log[c].okFrom => p \in log[c].recorded

\* C26: generate_chat and generate_text attempt groq first and openrouter only
\* if groq was skipped because its circuit is open or its request failed; when
\* groq succeeds openrouter is not attempted, groq's result is returned and
\* only groq's breaker is touched.
C26_PrimaryThenSecondary ==
    \A c \in Calls :
        op[c] \in {"chat", "text"} =>
            /\ ("openrouter" \in log[c].issued \cup log[c].readOpen) =>
                  \/ "groq" \in log[c].readOpen
                  \/ /\ "groq" \in log[c].issued /\ "groq" \in log[c].recorded
                     /\ "groq" \notin log[c].okFrom
            /\ "groq" \in log[c].okFrom =>
                  /\ pc[c] = "done"
                  /\ result[c].provider = "groq"
                  /\ "openrouter" \notin log[c].issued \cup log[c].readOpen
                  /\ log[c].recorded = {"groq"}
            /\ (pc[c] = "done" /\ result[c].provider = "openrouter") =>
                  /\ "openrouter" \in log[c].okFrom
                  /\ "groq" \notin log[c].okFrom

\* a text call answered by openrouter after groq's request failed
C26_Witness ==
    \E c \in Calls :
        /\ op[c] = "text" /\ pc[c] = "done"
        /\ result[c] = ProviderLLM("openrouter")
        /\ "groq" \in log[c].issued /\ "groq" \notin log[c].readOpen

(***************************************************************************)
(* Closing and re-opening of the circuit                                   *)
(***************************************************************************)

\* C27: if _record_success(p) runs while p's persisted circuit state is open
\* (the request left before the circuit opened and succeeded inside the open
\* window), then once it completes p's failure counter is cleared and reads
\* of p's circuit state return closed.
C27_SuccessClosesOpenCircuit ==
    [][\A c \in Calls, p \in Providers :
          (/\ pc[c] = "request" /\ op[c] \in {"chat", "text"} /\ prov[c] = p
           /\ pc'[c] = "done" /\ p \in log'[c].okFrom
           /\ cbState[p].val = "open")
          => /\ cbFailures'[p] = NoCounter
             /\ get_circuit_state(cbState'[p], TRUE) = "closed"]_vars

\* the closing entry _record_success writes over an open one
C27_Witness ==
    \E p \in Providers :
        /\ cbState[p] = RedisSetex(DefaultStateTtl, "closed")
        /\ cbFailures[p] = NoCounter
        /\ \E c \in Calls : pc[c] = "done" /\ p \in log[c].okFrom /\ p \notin log[c].issuedOpen

\* C28: if a provider's circuit is opened and no further failure is recorded
\* for it, every read of its circuit state made reset_timeout_seconds or more
\* after the opening returns closed, without any explicit close.
C28_OpenExpiresAfterResetTimeout ==
    sinceFail >= ResetTimeout => ~IsOpenNow(watched)

\* the circuit opened reset_timeout_seconds ago, nothing was recorded since,
\* and the key is gone
C28_Witness ==
    /\ inLife /\ lopenedAge = ResetTimeout /\ sinceFail = ResetTimeout
    /\ cbFailures[watched].n = FailMax
    /\ cbState[watched] = NoKey

\* C29: when a provider's open window has expired but its failure counter
\* still holds a value >= fail_max, the first failure recorded afterwards
\* re-opens the circuit at once.
C29_ReopensOnFirstFailure ==
    [][\A p \in Providers :
          (/\ cbFailures[p].n >= FailMax /\ ~IsOpenNow(p)
           /\ cbFailures'[p].n = cbFailures[p].n + 1)
          => IsOpenNow(p)']_vars

\* one failure after the fail_max-th, recorded reset_timeout_seconds or more
\* after it, has just written the open entry again
C29_Witness ==
    /\ inLife /\ lopenedAge = ResetTimeout /\ sinceFail = 0
    /\ cbFailures[watched].n = FailMax + 1
    /\ cbState[watched] = RedisSetex(ResetTimeout, "open")

(***************************************************************************)
(* Rate limiter claims                                                     *)
(***************************************************************************)

\* C21: if any key-value store operation inside check_rate_limit fails,
\* check_rate_limit returns allowed=true and raises nothing, so the message
\* goes on through the pipeline.
C21_RateLimitFailsOpen ==
    \A i \in 1..Len(plLog) :
        plLog[i].op = "rate_failed" =>
            /\ plRate # NoRate /\ plRate.allowed
            /\ RepliesOf("notice") = {}
            /\ plRaisedAt \notin {"rate_get", "rate_setex", "rate_incr", "rate_ttl"}
            /\ IF i = Len(plLog) THEN plPc = "typing" ELSE plLog[i + 1].op = "typing"

\* the counter could not be written, and the message was answered all the same
C21_Witness ==
    /\ LogHas("rate_failed") /\ LogHas("rate_get")
    /\ plPc = "done"
    /\ \E i \in RepliesOf("generated") : plLog[i].ok

\* C24: for one user and any interleaving of concurrent check_rate_limit
\* calls, at most max_requests calls return allowed=true within a single
\* window of window_seconds.
C24_AtMostMaxRequestsPerWindow ==
    rlWin <= MaxRequests

\* C25: whenever a per-user rate-limit counter key exists in the store it
\* carries an expiry, for every interleaving of check_rate_limit steps with
\* key expiry.
C25_CounterAlwaysExpires ==
    rlKey # NoCounter => rlKey.ttl # NoExpiry

\* generation came back without an exception
Generated == \E i \in 1..Len(plLog) : plLog[i].op = "llm" /\ plLog[i].ok
GeneratedFrom(source) ==
    \E i \in 1..Len(plLog) : plLog[i].op = "llm" /\ plLog[i].ok /\ plLog[i].kind = source

\* C36: when generation yields should_respond=false or empty reply text
\* (including exhaustion of all providers and a failed vision request), the
\* pipeline sends no reply and no apology and spawns no persistence task.
C36_SilentWhenNothingToSay ==
    /\ (Generated /\ (~plGen.should_respond \/ plGen.reply_text = "")) =>
          /\ ~LogHas("reply")
          /\ ~LogHas("spawn")
          /\ ppPc = "none"
          /\ plPc = "done" /\ plExit = "returned"
    /\ (GeneratedFrom("all_providers_down") \/ GeneratedFrom("vision_failed")
          \/ GeneratedFrom("no_image_url")) =>
          (~plGen.should_respond \/ plGen.reply_text = "")

\* a provider answered should_respond=true with an empty text, and the
\* handler returned after the typing indicator alone
C36_Witness ==
    /\ GeneratedFrom("provider")
    /\ plGen.should_respond /\ plGen.reply_text = ""
    /\ plPc = "done" /\ ~LogHas("reply") /\ LogHas("typing")

\* the replies of the handler that were delivered
SentReplies == {i \in 1..Len(plLog) : plLog[i].op = "reply" /\ plLog[i].ok}

\* C38: for each triggering message, the chat pipeline successfully sends at
\* most one reply in every execution path: the canned reply, the rate-limit
\* notice, the generated reply and the apology fallback are mutually
\* exclusive.
C38_AtMostOneReply ==
    Cardinality(SentReplies) <= 1

\* the generated reply could not be sent and the apology was
C38_Witness ==
    /\ plPc = "done"
    /\ \E i \in RepliesOf("generated") : ~plLog[i].ok
    /\ \E i \in RepliesOf("apology") : plLog[i].ok
    /\ Cardinality(SentReplies) = 1

(***************************************************************************)
(* Persona cache claims                                                    *)
(***************************************************************************)

\* C22: after set_user_persona, set_server_persona or reset_user_persona
\* completes, every get_effective_persona call that starts afterwards returns
\* the newly stored persona and not an older cached one, for every
\* interleaving with persona reads that were in progress during the write.
C22_ReadsAfterWriteSeeIt ==
    (prPc = "done" /\ prAfter) =>
        perEff = resolve_persona(perUser, server_row_data(perServer))

(***************************************************************************)
(* Reply chain claims                                                      *)
(***************************************************************************)
\* the number of links that give a parent before the first that does not
LinksBeforeStop ==
    CHOOSE k \in 0..Len(tcIn) :
        /\ \A i \in 1..k : tcIn[i] \in {"cached", "fetched"}
        /\ k < Len(tcIn) => tcIn[k + 1] \notin {"cached", "fetched"}

TraceResultRight ==
    tcPc = "done" =>
        /\ Len(tcRet) <= ReplyChainDepth
        /\ \A i \in 1..Len(tcRet) : tcRet[i].msg_id = Parent(i)
        /\ Len(tcRet) = (IF LinksBeforeStop < ReplyChainDepth THEN LinksBeforeStop
                         ELSE ReplyChainDepth)

\* C32: _trace_reply_chain always terminates and returns at most
\* reply_chain_depth fragments ordered closest parent first; if obtaining the
\* parent at depth k fails for any reason it returns exactly the k fragments
\* already collected and raises nothing.
C32_TraceTerminatesBounded ==
    /\ [](TraceResultRight /\ tcPc # "raised")
    /\ <>(tcPc = "done")

\* the fetch of the third parent failed under a longer chain, and the two
\* fragments collected were returned
C32_Witness ==
    /\ tcPc = "done"
    /\ Len(tcIn) = MaxChainLen /\ tcIn[3] = "fetch_fails"
    /\ tcIn[1] = "fetched" /\ tcIn[2] = "cached"
    /\ Len(tcRet) = 2

(***************************************************************************)
(* Channel history claims                                                  *)
(***************************************************************************)
HistoryIds(history) == {history[i].id : i \in 1..Len(history)}

\* the messages of the channel with text, oldest first, without the trigger
OldestFirstWithText(channel, exclude_id) ==
    SelectSeq(channel, LAMBDA m : ~m.blank /\ m.id # exclude_id)

\* C33: _get_channel_history on a cache hit returns the cached entries
\* without calling the platform, and on a miss fetches, drops blank-content
\* messages, orders oldest to newest and writes the result to the cache with
\* a 120 s expiry; on both paths the returned history never contains the
\* triggering message.  Stated for calls in which no command failed.
C33_HitReturnsCacheMissRefills ==
    (chCall.made /\ chCall.ok) =>
        /\ chCall.before.present =>
              /\ ~chCall.called
              /\ chCall.ret = SelectSeq(chCall.before.val,
                                        LAMBDA m : m.id # chCall.exclude_id)
        /\ ~chCall.before.present =>
              /\ chCall.called
              /\ chCall.ret = OldestFirstWithText(chCall.channel, chCall.exclude_id)
        /\ chCall.exclude_id \notin HistoryIds(chCall.ret)

(***************************************************************************)
(* Lurker claims                                                           *)
(***************************************************************************)

\* C39: for one channel and any interleaving of concurrent lurker handlers
\* (cooldown check, then generation and delay, then send, then cooldown set),
\* at most one lurker message is sent within cooldown_seconds.
C39_OneLurkPerCooldown ==
    Len(lkSentAges) <= 1

====
